---- MODULE Spec2Model ----
(***************************************************************************)
(* A model of leptos_axum (integrations/axum/src/lib.rs): the Response     *)
(* Sink (ResponseParts / ResponseOptions), the server-function dispatcher  *)
(* (handle_server_fns_inner) and the streaming render pipeline            *)
(* (render_app_to_stream_with_context).                                    *)
(***************************************************************************)
EXTENDS Integers, Sequences, FiniteSets, TLC

(***************************************************************************)
(* Bounds of the model.                                                    *)
(***************************************************************************)
\* how many Response Sink operations one server function performs
MaxHandlerWrites == 2
\* how many Response Sink operations the components of one render perform
MaxRenderWrites == 2
\* how many body fragments the view engine emits at most
MaxFrags == 10
\* how many contributors call one Response Sink concurrently
MaxContributors == 2
\* how many requests are in flight at the same time
MaxRequests == 2
\* how many frames the body of a request has at most
MaxBodyFrames == 2
\* how many paths the application's router defines at most
MaxRoutes == 3
\* how many lines the manifest given to get_configuration has at most
MaxLines == 2
\* how many tokens follow the head of a view! invocation at most
MaxTokens == 6

(***************************************************************************)
(* Program constants.                                                      *)
(***************************************************************************)
\* StatusCode::OK
StatusOK == 200
\* StatusCode::FOUND
StatusFound == 302
\* StatusCode::SEE_OTHER
StatusSeeOther == 303
\* StatusCode::BAD_REQUEST
StatusBadRequest == 400
\* StatusCode::INTERNAL_SERVER_ERROR
StatusInternalServerError == 500
\* futures::channel::mpsc::channel(8)
ChanBuffer == 8

(***************************************************************************)
(* Option<T>: None is the empty set, Some(x) the singleton {x}.            *)
(***************************************************************************)
None == {}
Some(x) == {x}
IsSome(o) == o # {}
Unwrap(o) == CHOOSE x \in o : TRUE
UnwrapOr(o, d) == IF o = {} THEN d ELSE CHOOSE x \in o : TRUE

(***************************************************************************)
(* http::HeaderMap: a multimap from header names to the values of the      *)
(* name, in insertion order.  A name without values is absent.             *)
(***************************************************************************)
HeaderNames == {"content-type", "location", "set-cookie"}
HeaderVals == {"v1", "v2"}
EmptyHeaders == [n \in HeaderNames |-> <<>>]

\* HeaderMap::insert: the name keeps the new value alone
HeaderMapInsert(h, k, v) == [h EXCEPT ![k] = <<v>>]
\* HeaderMap::append: the new value follows the values of the name
HeaderMapAppend(h, k, v) == [h EXCEPT ![k] = Append(@, v)]
\* HeaderMap::extend(src.drain()): each name of src replaces the name in h
\* with all of its values; the names src lacks are kept
HeaderMapExtend(h, src) ==
    [n \in HeaderNames |-> IF src[n] # <<>> THEN src[n] ELSE h[n]]

(***************************************************************************)
(* ResponseParts and the four operations of ResponseOptions.  Each         *)
(* operation takes the writer lock, mutates in place and releases, so it   *)
(* is one atomic step on the value held by the Arc<RwLock<..>>.            *)
(***************************************************************************)
DefaultResponseParts == [status |-> None, headers |-> EmptyHeaders]

\* a variant of the allocation below: the handler keeps one sink
response_options_shared(cells) ==
    IF cells = <<>>
    THEN [heap |-> <<DefaultResponseParts>>, handle |-> 1]
    ELSE [heap |-> cells, handle |-> 1]
\* ResponseOptions::default(): Arc::new(RwLock::new(ResponseParts::default()))
response_options_default(cells) ==
    [heap |-> Append(cells, DefaultResponseParts), handle |-> Len(cells) + 1]

\* variants of the operations, against which the properties are tried
set_status_keeping_first(parts, s) ==
    IF parts.status = None THEN [parts EXCEPT !.status = Some(s)] ELSE parts
insert_header_appending(parts, k, v) ==
    [parts EXCEPT !.headers = HeaderMapAppend(@, k, v)]
append_header_replacing(parts, k, v) ==
    [parts EXCEPT !.headers = HeaderMapInsert(@, k, v)]

\* a variant of overwrite that replaces the status and keeps the headers
overwrite_status_only(parts, new) == [parts EXCEPT !.status = new.status]
overwrite(parts, new) == new
set_status(parts, s) == [parts EXCEPT !.status = Some(s)]
insert_header(parts, k, v) ==
    [parts EXCEPT !.headers = HeaderMapInsert(@, k, v)]
append_header(parts, k, v) ==
    [parts EXCEPT !.headers = HeaderMapAppend(@, k, v)]

\* the statuses application code sets in this model: 201 Created, which the
\* crate never sets itself, and the 303 of the redirect
SinkStatuses == {201, StatusSeeOther}
\* the ResponseParts values application code passes to overwrite
OverwriteArgs ==
    { DefaultResponseParts,
      [status |-> Some(201),
       headers |-> [EmptyHeaders EXCEPT !["set-cookie"] = <<"v1">>]] }

\* the calls application code makes on the Response Sink in this model
SinkOps ==
    [op : {"set_status"}, s : SinkStatuses]
      \cup [op : {"insert_header"}, k : HeaderNames, v : {"v1"}]
      \cup [op : {"append_header"}, k : HeaderNames, v : {"v2"}]
      \cup [op : {"overwrite"}, parts : OverwriteArgs]

\* the calls the components of a render make in this model
ComponentOps ==
    [op : {"set_status"}, s : SinkStatuses]
      \cup [op : {"insert_header"}, k : {"location"}, v : {"v1"}]
      \cup [op : {"append_header"}, k : {"set-cookie"}, v : {"v2"}]
      \cup [op : {"overwrite"}, parts : {DefaultResponseParts}]

ApplySinkOp(parts, o) ==
    CASE o.op = "set_status"    -> set_status(parts, o.s)
      [] o.op = "insert_header" -> insert_header(parts, o.k, o.v)
      [] o.op = "append_header" -> append_header(parts, o.k, o.v)
      [] o.op = "overwrite"     -> overwrite(parts, o.parts)

\* the status a call writes: Some(s), or what overwrite's argument holds;
\* the header calls write none
WritesStatus(o) == o.op \in {"set_status", "overwrite"}
StatusWritten(o) == IF o.op = "set_status" THEN Some(o.s) ELSE o.parts.status

\* redirect(cx, path): the two sink calls it makes, in their order
RedirectPaths == {"/login"}
redirect(parts, path) ==
    insert_header(set_status(parts, StatusFound), "location", path)

(***************************************************************************)
(* Request headers.  A HeaderValue is a byte string; to_str() succeeds     *)
(* only when every byte is visible ASCII.                                  *)
(***************************************************************************)
Text(s) == [ascii |-> TRUE, bytes |-> s]
\* a header value holding bytes outside visible ASCII
OpaqueValue == [ascii |-> FALSE, bytes |-> "xff"]
\* HeaderValue::to_str().ok()
ToStrOk(hv) == IF hv.ascii THEN Some(hv.bytes) ELSE None
\* headers.get(name).and_then(|value| value.to_str().ok())
GetStr(hs, name) == IF hs[name] = None THEN None ELSE ToStrOk(Unwrap(hs[name]))

AcceptInputs ==
    { None,
      Some(Text("application/json")),
      Some(Text("application/x-www-form-urlencoded")),
      Some(Text("application/cbor")),
      Some(Text("application/json, text/html")),
      Some(OpaqueValue) }
RefererInputs == { None, Some(Text("/foo")), Some(OpaqueValue) }

(***************************************************************************)
(* Function paths are sequences of characters.                             *)
(***************************************************************************)
PathInputs ==
    { <<"f">>, <<"/", "f">>, <<"/", "/", "f">>, <<"g">>, <<"/", "g">>, <<>> }
\* the names registered with the server-function registry
Registered == { <<"f">> }
\* server_fn_by_path: the handler registered under exactly this name
server_fn_by_path(name) == IF name \in Registered THEN Some(name) ELSE None

\* str::strip_prefix('/')
strip_prefix(s) == IF Len(s) > 0 /\ Head(s) = "/" THEN Some(Tail(s)) ELSE None
\* a variant of the normalization that strips a second separator too
normalize_trimming_slashes(s) ==
    LET once == UnwrapOr(strip_prefix(s), s) IN UnwrapOr(strip_prefix(once), once)
\* fn_name.strip_prefix('/').map(..to_string()).unwrap_or(fn_name)
normalize_fn_name(s) == UnwrapOr(strip_prefix(s), s)

\* the body of the 400 response: format!("Could not find ... {fn_name}. ...")
not_found_body_without_name(name) ==
    <<"Could not find a server function at the route ">>
      \o <<". It is likely that you need to call ServerFn::register on the server function type, somewhere in your main function.">>
not_found_body(name) ==
    <<"Could not find a server function at the route ">> \o name
      \o <<". It is likely that you need to call ServerFn::register on the server function type, somewhere in your main function.">>

(***************************************************************************)
(* What a server function returns: Ok(Payload::{Binary,Url,Json}(data)) or *)
(* Err(e); data is the serialized payload, and for Err the text that       *)
(* e.to_string() gives.                                                    *)
(***************************************************************************)
PayloadKinds == {"Binary", "Url", "Json"}
HandlerResults ==
    [kind : PayloadKinds, data : {"data"}] \cup [kind : {"Err"}, data : {"boom", "denied"}]

\* the Content-Type the dispatcher adds for a payload variant
payload_content_type(kind) ==
    CASE kind = "Binary" -> "application/cbor"
      [] kind = "Url"    -> "application/x-www-form-urlencoded"
      [] kind = "Json"   -> "application/json"

\* Response::builder(): status 200 and no headers until set
ResponseBuilder == [status |-> StatusOK, headers |-> EmptyHeaders, body |-> <<>>]
\* Builder::status
BuilderStatus(res, s) == [res EXCEPT !.status = s]
\* Builder::header appends to the header map
BuilderHeader(res, k, v) == [res EXCEPT !.headers = HeaderMapAppend(@, k, v)]
\* Builder::body
BuilderBody(res, b) == [res EXCEPT !.body = b]

\* the Accept values answered with the payload instead of a redirect
accept_is_payload_but_json(accept_header) ==
    \/ accept_header = Some("application/x-www-form-urlencoded")
    \/ accept_header = Some("application/cbor")
accept_is_payload(accept_header) ==
    \/ accept_header = Some("application/json")
    \/ accept_header = Some("application/x-www-form-urlencoded")
    \/ accept_header = Some("application/cbor")

\* header_ref.extend(res_headers.drain())
\* a variant of the merge that takes the first value of every name alone
merge_sink_headers_first_values(res, parts) ==
    [res EXCEPT !.headers =
        HeaderMapExtend(@, [n \in HeaderNames |->
                               IF parts.headers[n] = <<>> THEN <<>>
                               ELSE <<parts.headers[n][1]>>])]
merge_sink_headers(res, parts) ==
    [res EXCEPT !.headers = HeaderMapExtend(@, parts.headers)]

\* content negotiation: 200, or 303 back to the Referer (or "/")
negotiate_always_redirect(res, hs) ==
    BuilderHeader(BuilderStatus(res, StatusSeeOther), "location",
                  UnwrapOr(GetStr(hs, "referer"), "/"))
negotiate(res, hs) ==
    IF accept_is_payload(GetStr(hs, "accept"))
    THEN BuilderStatus(res, StatusOK)
    ELSE BuilderHeader(BuilderStatus(res, StatusSeeOther), "location",
                       UnwrapOr(GetStr(hs, "referer"), "/"))

\* Override StatusCode if it was set in a Resource or Element
override_status_unless_redirect(res, status) ==
    IF IsSome(status) /\ res.status = StatusOK
    THEN BuilderStatus(res, Unwrap(status)) ELSE res
override_status(res, status) ==
    IF IsSome(status) THEN BuilderStatus(res, Unwrap(status)) ELSE res

\* match serialized { Payload::X(data) => res.header("Content-Type", ..).body(data) }
with_payload(res, payload) ==
    BuilderBody(BuilderHeader(res, "content-type", payload_content_type(payload.kind)),
                <<payload.data>>)

\* the Ok branch of handle_server_fns_inner, after the scope is disposed
success_response(hs, parts, payload) ==
    with_payload(
        override_status(negotiate(merge_sink_headers(ResponseBuilder, parts), hs),
                        parts.status),
        payload)

\* the Err branch: 500 and e.to_string()
failure_response_without_body(e) ==
    BuilderStatus(ResponseBuilder, StatusInternalServerError)
failure_response(e) ==
    BuilderBody(BuilderStatus(ResponseBuilder, StatusInternalServerError), <<e.data>>)

\* no server function at the route: 400 and the explanation
not_found_response(name) ==
    BuilderBody(BuilderStatus(ResponseBuilder, StatusBadRequest), not_found_body(name))

(***************************************************************************)
(* State.                                                                  *)
(***************************************************************************)
VARIABLES
    \* --- handle_server_fns_inner, one request ---
    dpc,        \* where the dispatch is
    req_path,   \* the function path the Path extractor gave
    fn_name,    \* the local fn_name (shadowed by its normalized form)
    headers,    \* the request headers: Accept and Referer
    scope,      \* the execution scope: "none", "live" or "disposed"
    ctx,        \* the context of the scope: type -> Option value
    dsink,      \* the ResponseParts held by the scope's ResponseOptions
    dwrites,    \* how many sink calls the server function has made
    d_last,     \* history: the status the last status-writing call wrote
    d_redirect, \* history: the path of redirect(), when it was the last sink call
    result,     \* what the server function returned
    res,        \* the response the worker built
    oneshot,    \* the responses sent on the completion channel
    returned    \* what handle_server_fns_inner returned

dvars == <<dpc, req_path, fn_name, headers, scope, ctx, dsink, dwrites, d_last, d_redirect,
           result, res, oneshot, returned>>

VARIABLES
    \* --- render_app_to_stream_with_context, one request ---
    wpc,        \* where the worker thread is
    cpc,        \* where the calling side (then the HTTP layer) is
    rscope,     \* the execution scope of the render
    emitted,    \* how many fragments the view engine has emitted
    chan,       \* the fragments queued in the mpsc channel
    parked,     \* the sender is parked: the queue is over its buffer
    tx_closed,  \* tx.close_channel() was called
    rx_dropped, \* the receiving end was dropped
    rsink,      \* the ResponseParts of the request's one ResponseOptions cell
    rwrites,    \* how many sink calls the components have made
    stream_pos, \* where the chained stream is: "head", "rx" or "end"
    pulled,     \* first_chunk, second_chunk, third_chunk, as pulled
    response,   \* the Response the handler returned (status and headers)
    body,       \* the re-spliced chunks the HTTP layer has not read yet
    delivered,  \* the chunks the HTTP layer has read from the body
    early,      \* history: the sink when the second fragment was emitted
    late_status,\* history: a status write between then and the response
    late_names, \* history: the names replaced between then and the response
    late_write  \* history: a component wrote after the response was built

rvars == <<wpc, cpc, rscope, emitted, chan, parked, tx_closed, rx_dropped, rsink,
           rwrites, stream_pos, pulled, response, body, delivered, early,
           late_status, late_names, late_write>>

(***************************************************************************)
(* Contributors sharing one Response Sink: each call of a sink operation   *)
(* awaits the writer lock, mutates the parts under it, and releases it     *)
(* when the operation returns.                                             *)
(***************************************************************************)
VARIABLES
    s_pc,       \* contributor -> "idle", "waiting", "writing", "written", "done"
    s_call,     \* contributor -> the sink call it makes
    s_lock,     \* Option: the contributor holding the writer lock
    s_parts,    \* the ResponseParts behind the lock
    s_start,    \* history: the parts before the contributors started
    s_prev,     \* history: the parts before the latest mutation
    s_last,     \* history: Option, the call that mutated latest
    s_order     \* history: contributors in the order they acquired the lock

svars == <<s_pc, s_call, s_lock, s_parts, s_start, s_prev, s_last, s_order>>

NoCall == [op |-> "none"]

\* no contributor is at work
SIdle ==
    /\ s_pc = <<>>
    /\ s_call = <<>>
    /\ s_lock = None
    /\ s_parts = DefaultResponseParts
    /\ s_start = DefaultResponseParts
    /\ s_prev = DefaultResponseParts
    /\ s_last = None
    /\ s_order = <<>>

(***************************************************************************)
(* Requests served concurrently.  Every ResponseOptions::default() makes   *)
(* a new Arc<RwLock<ResponseParts>>: the heap holds one cell for each.     *)
(***************************************************************************)
VARIABLES
    q_pc,       \* request -> "arrived", "running", "responded"
    q_sink,     \* request -> the cell of its ResponseOptions (0: none yet)
    heap,       \* the ResponseParts cells allocated so far
    q_writes,   \* request -> how many sink calls its application code made
    q_own,      \* history: request -> what its own calls make of an empty sink
    q_read      \* request -> Option: the parts read for its response

qvars == <<q_pc, q_sink, heap, q_writes, q_own, q_read>>

\* no request is being served
QIdle ==
    /\ q_pc = <<>>
    /\ q_sink = <<>>
    /\ heap = <<>>
    /\ q_writes = <<>>
    /\ q_own = <<>>
    /\ q_read = <<>>

(***************************************************************************)
(* generate_request_parts: the request it is given, the drain of the body  *)
(* and the RequestParts it returns.                                        *)
(***************************************************************************)
VARIABLES
    g_pc,       \* "start", "draining", "drained", "done"
    g_req,      \* the incoming request; its body is a stream of frames
    g_pos,      \* how many frames of the body have been polled
    g_buf,      \* the bytes to_bytes has collected
    g_drained,  \* Option: the Result of to_bytes
    g_parts     \* Option: the RequestParts returned

gvars == <<g_pc, g_req, g_pos, g_buf, g_drained, g_parts>>

\* no snapshot is being built
GIdle ==
    /\ g_pc = "idle"
    /\ g_req = <<>>
    /\ g_pos = 0
    /\ g_buf = <<>>
    /\ g_drained = None
    /\ g_parts = None

(***************************************************************************)
(* generate_route_list: the paths the router's walk of the application     *)
(* yields, the Routes cell they pass through, and the list returned.       *)
(***************************************************************************)
VARIABLES
    t_pc,       \* "start", "walked", "written", "read", "mapped", "done"
    t_app,      \* the paths the application's router defines
    t_walked,   \* the Vec generate_route_list_inner returned
    t_cell,     \* Routes: the Vec behind the Arc<RwLock<..>>
    t_routes,   \* the local routes
    t_result    \* Option: the Vec returned

tvars == <<t_pc, t_app, t_walked, t_cell, t_routes, t_result>>

\* no route list is being generated
TIdle ==
    /\ t_pc = "idle"
    /\ t_app = <<>>
    /\ t_walked = <<>>
    /\ t_cell = <<>>
    /\ t_routes = <<>>
    /\ t_result = None

(***************************************************************************)
(* Configuration (leptos_config) and the head of the shell the render      *)
(* handler builds from it.                                                 *)
(***************************************************************************)
VARIABLES
    c_pc,       \* "start", "configured", "handler", "head"
    c_env,      \* the environment variables of the process
    c_path,     \* Option: the path given to get_configuration
    c_file,     \* the file at that path: unreadable, or its lines
    c_conf,     \* Option: the Result of get_configuration(path)
    c_options,  \* Option: the LeptosOptions given to the render handler
    c_head      \* Option: the head of the shell of a rendered response

cvars == <<c_pc, c_env, c_path, c_file, c_conf, c_options, c_head>>

\* nothing is being configured
CIdle ==
    /\ c_pc = "idle"
    /\ c_env = <<>>
    /\ c_path = None
    /\ c_file = <<>>
    /\ c_conf = None
    /\ c_options = None
    /\ c_head = None

(***************************************************************************)
(* The view! macro (leptos_macro): the token stream of one invocation.     *)
(***************************************************************************)
VARIABLE view_macro
\* its fields, once an invocation is being expanded
m_pc == view_macro.pc          \* "start", "head", "four", "matched", "parsing", "panicked"
m_input == view_macro.input    \* the tokens of the invocation
m_iter == view_macro.iter      \* the tokens the iterator has not yet returned
m_cx == view_macro.cx          \* Option: the context identifier
m_four == view_macro.four      \* first, second, third, fourth: an Option each
m_class == view_macro.class    \* Option of global_class (itself an Option)
m_parsed == view_macro.parsed  \* Option: the tokens handed to the parser

mvars == <<view_macro>>

\* no macro is being expanded
MIdle == view_macro = <<>>

(***************************************************************************)
(* The lock of the Response Sink in one render: the tasks of the worker    *)
(* thread and the calling side take it in turn.                            *)
(***************************************************************************)
VARIABLE sink_lock
\* its fields, once a render is under way
l_pc == sink_lock.pc              \* where the calling side, the worker and the component are
l_run == sink_lock.run            \* the task the worker thread is running, or "none"
l_ops == sink_lock.ops            \* how many redirect calls the component has begun
l_emitted == sink_lock.emitted    \* how many fragments the worker has sent
l_chan == sink_lock.chan          \* how many fragments wait in the channel
l_closed == sink_lock.closed      \* the worker has closed the channel
l_pos == sink_lock.pos            \* where the calling side's stream is: "head", "rx", "end"
l_pulled == sink_lock.pulled      \* the chunks pulled eagerly: TRUE for Some, FALSE for None
l_readers == sink_lock.readers    \* the holders of a read guard
l_writer == sink_lock.writer      \* Option: the holder of the write guard
l_queue == sink_lock.queue        \* the requests waiting for the lock, first come first
l_sink == sink_lock.sink          \* the ResponseParts behind the lock
l_copy == sink_lock.copy          \* Option: new_res_parts, the worker's clone
l_response == sink_lock.response  \* Option: the response the handler returns

lvars == <<sink_lock>>

\* no render is taking the lock
LIdle == sink_lock = <<>>

(***************************************************************************)
(* The conversions to Env (leptos_config), applied to one input.           *)
(***************************************************************************)
VARIABLES
    e_input,    \* a Result<String, VarError>: the text, or the error
    e_out       \* conversion -> Option of its outcome

evars == <<e_input, e_out>>

\* nothing is being converted
EIdle ==
    /\ e_input = <<>>
    /\ e_out = <<>>

ovars == <<svars, qvars, gvars, tvars, cvars, mvars, lvars, evars>>

vars == <<dvars, rvars, ovars>>

(***************************************************************************)
(* The server-function dispatcher: handle_server_fns_inner.                *)
(***************************************************************************)
\* the dispatcher's state before a request, but for the request itself
\* The context of a scope holds one value for each type: provide_context
\* replaces the value of the type, use_context finds it.
ContextTypes == {"AppState", "RequestParts", "ResponseOptions"}
EmptyContext == [t \in ContextTypes |-> None]
\* a variant of provide_context that keeps a value already provided
provide_context_unless_present(c, type, v) ==
    IF c[type] = None THEN [c EXCEPT ![type] = Some(v)] ELSE c
provide_context(c, type, v) == [c EXCEPT ![type] = Some(v)]
use_context(c, type) == c[type]

\* what the application's callback provides: nothing, or values of its own
\* for every type, among them a snapshot of some other request and a sink
\* that already holds a status and a header
CallbackSink ==
    [status |-> Some(201),
     headers |-> [EmptyHeaders EXCEPT !["set-cookie"] = <<"v1">>]]
CallbackSnapshot == [uri |-> <<"other">>, headers |-> [accept |-> None, referer |-> None]]
CallbackContexts ==
    { EmptyContext,
      [t \in ContextTypes |->
          CASE t = "AppState"        -> Some("state")
            [] t = "RequestParts"    -> Some(CallbackSnapshot)
            [] t = "ResponseOptions" -> Some("callback_sink")] }
\* the snapshot generate_request_parts makes of the request in hand
RequestSnapshot(uri, hs) == [uri |-> uri, headers |-> hs]

DFresh ==
    /\ dpc = "start"
    /\ fn_name = req_path
    /\ scope = "none"
    /\ ctx = EmptyContext
    /\ dsink = DefaultResponseParts
    /\ dwrites = 0
    /\ d_last = None
    /\ d_redirect = None
    /\ result = None
    /\ res = None
    /\ oneshot = <<>>
    /\ returned = None

\* a request arrives: any function path, any Accept and Referer headers
DInit ==
    /\ req_path \in PathInputs
    /\ headers \in [accept : AcceptInputs, referer : RefererInputs]
    /\ DFresh

\* no server-function request is in flight
DIdle ==
    /\ req_path = <<>>
    /\ headers = [accept |-> None, referer |-> None]
    /\ DFresh

\* let fn_name = fn_name.strip_prefix('/')...; then the worker is spawned
DNormalize ==
    /\ dpc = "start"
    /\ fn_name' = normalize_fn_name(fn_name)
    /\ dpc' = "lookup"
    /\ UNCHANGED <<req_path, headers, scope, ctx, dsink, dwrites, d_last, d_redirect, result,
                   res, oneshot, returned, rvars, ovars>>

\* if let Some(server_fn) = server_fn_by_path(fn_name.as_str())
DLookupHit ==
    /\ dpc = "lookup"
    /\ IsSome(server_fn_by_path(fn_name))
    /\ dpc' = "create_scope"
    /\ UNCHANGED <<req_path, fn_name, headers, scope, ctx, dsink, dwrites, d_last, d_redirect,
                   result, res, oneshot, returned, rvars, ovars>>

\* a variant of the step below: a scope is created before the registry is found empty
DLookupMiss_creating_scope ==
    /\ dpc = "lookup"
    /\ ~IsSome(server_fn_by_path(fn_name))
    /\ scope' = "live"
    /\ res' = Some(not_found_response(fn_name))
    /\ dpc' = "built"
    /\ UNCHANGED <<req_path, fn_name, headers, ctx, dsink, dwrites, d_last, d_redirect,
                   result, oneshot, returned, rvars, ovars>>

\* else: Response::builder().status(BAD_REQUEST).body(format!(..))
DLookupMiss ==
    /\ dpc = "lookup"
    /\ ~IsSome(server_fn_by_path(fn_name))
    /\ res' = Some(not_found_response(fn_name))
    /\ dpc' = "built"
    /\ UNCHANGED <<req_path, fn_name, headers, scope, ctx, dsink, dwrites, d_last, d_redirect,
                   result, oneshot, returned, rvars, ovars>>

\* create_runtime(); raw_scope_and_disposer(runtime)
DCreateScope ==
    /\ dpc = "create_scope"
    /\ scope' = "live"
    /\ dpc' = "additional_context"
    /\ UNCHANGED <<req_path, fn_name, headers, ctx, dsink, dwrites, d_last, d_redirect, result,
                   res, oneshot, returned, rvars, ovars>>

\* additional_context(cx)
DAdditionalContext ==
    /\ dpc = "additional_context"
    /\ \E provided \in CallbackContexts :
        /\ ctx' = provided
        /\ dsink' = IF use_context(provided, "ResponseOptions") = Some("callback_sink")
                    THEN CallbackSink ELSE dsink
    /\ dpc' = "request_parts"
    /\ UNCHANGED <<req_path, fn_name, headers, scope, dwrites, d_last, d_redirect, result,
                   res, oneshot, returned, rvars, ovars>>

\* generate_request_parts(req).await; provide_context(cx, req_parts.clone())
DRequestParts ==
    /\ dpc = "request_parts"
    /\ ctx' = provide_context(ctx, "RequestParts", RequestSnapshot(req_path, headers))
    /\ dpc' = "response_options"
    /\ UNCHANGED <<req_path, fn_name, headers, scope, dsink, dwrites, d_last, d_redirect, result,
                   res, oneshot, returned, rvars, ovars>>

\* provide_context(cx, ResponseOptions::default()); server_fn(cx, ..) starts
DProvideSink ==
    /\ dpc = "response_options"
    /\ ctx' = provide_context(ctx, "ResponseOptions", "request_sink")
    \* the sink the server function will find in its scope
    /\ dsink' = IF use_context(ctx', "ResponseOptions") = Some("request_sink")
                THEN DefaultResponseParts ELSE dsink
    /\ dpc' = "handler"
    /\ UNCHANGED <<req_path, fn_name, headers, scope, dwrites, d_last, d_redirect, result, res,
                   oneshot, returned, rvars, ovars>>

\* the server function calls one operation of the Response Sink
DHandlerWrite ==
    /\ dpc = "handler"
    /\ dwrites < MaxHandlerWrites
    /\ \E o \in SinkOps :
        /\ dsink' = ApplySinkOp(dsink, o)
        /\ d_last' = IF WritesStatus(o) THEN StatusWritten(o) ELSE d_last
    /\ d_redirect' = None
    /\ dwrites' = dwrites + 1
    /\ UNCHANGED <<dpc, req_path, fn_name, headers, scope, ctx, result, res,
                   oneshot, returned, rvars, ovars>>

\* the server function calls redirect(cx, path): set_status(FOUND).await, then
\* insert_header(LOCATION, path).await, on the sink it alone holds
DHandlerRedirect ==
    /\ dpc = "handler"
    /\ dwrites < MaxHandlerWrites
    /\ \E path \in RedirectPaths :
        /\ dsink' = redirect(dsink, path)
        /\ d_redirect' = Some(path)
    /\ d_last' = Some(StatusFound)
    /\ dwrites' = dwrites + 1
    /\ UNCHANGED <<dpc, req_path, fn_name, headers, scope, ctx, result, res,
                   oneshot, returned, rvars, ovars>>

\* server_fn(cx, &req_parts.body).await is Ok(serialized);
\* use_context::<ResponseOptions>(cx)
DHandlerOk ==
    /\ dpc = "handler"
    /\ \E r \in HandlerResults : r.kind # "Err" /\ result' = Some(r)
    /\ dpc' = "dispose"
    /\ UNCHANGED <<req_path, fn_name, headers, scope, ctx, dsink, dwrites, d_last, d_redirect,
                   res, oneshot, returned, rvars, ovars>>

\* server_fn(cx, &req_parts.body).await is Err(e)
DHandlerErr ==
    /\ dpc = "handler"
    /\ \E r \in HandlerResults : r.kind = "Err" /\ result' = Some(r)
    /\ dpc' = "failed"
    /\ UNCHANGED <<req_path, fn_name, headers, scope, ctx, dsink, dwrites, d_last, d_redirect,
                   res, oneshot, returned, rvars, ovars>>

\* disposer.dispose(); runtime.dispose()
DDispose ==
    /\ dpc = "dispose"
    /\ scope' = "disposed"
    /\ dpc' = "respond"
    /\ UNCHANGED <<req_path, fn_name, headers, ctx, dsink, dwrites, d_last, d_redirect, result,
                   res, oneshot, returned, rvars, ovars>>

\* read the sink, negotiate, override the status, add the payload
DBuildSuccess ==
    /\ dpc = "respond"
    /\ res' = Some(success_response(headers, dsink, Unwrap(result)))
    /\ dpc' = "built"
    /\ UNCHANGED <<req_path, fn_name, headers, scope, ctx, dsink, dwrites, d_last, d_redirect,
                   result, oneshot, returned, rvars, ovars>>

\* a variant of the step below: the headers of the sink are added
DBuildFailure_merging_sink ==
    /\ dpc = "failed"
    /\ res' = Some(merge_sink_headers(failure_response(Unwrap(result)), dsink))
    /\ dpc' = "built"
    /\ UNCHANGED <<req_path, fn_name, headers, scope, ctx, dsink, dwrites, d_last, d_redirect,
                   result, oneshot, returned, rvars, ovars>>

\* Err(e) => Response::builder().status(INTERNAL_SERVER_ERROR).body(e.to_string())
DBuildFailure ==
    /\ dpc = "failed"
    /\ res' = Some(failure_response(Unwrap(result)))
    /\ dpc' = "built"
    /\ UNCHANGED <<req_path, fn_name, headers, scope, ctx, dsink, dwrites, d_last, d_redirect,
                   result, oneshot, returned, rvars, ovars>>

\* a variant of the step below: the worker ends without sending
DSend_dropping_response ==
    /\ dpc = "built"
    /\ dpc' = "sent"
    /\ UNCHANGED <<req_path, fn_name, headers, scope, ctx, dsink, dwrites, d_last, d_redirect,
                   result, res, oneshot, returned, rvars, ovars>>

\* _ = tx.send(res)
DSend ==
    /\ dpc = "built"
    /\ oneshot' = Append(oneshot, Unwrap(res))
    /\ dpc' = "sent"
    /\ UNCHANGED <<req_path, fn_name, headers, scope, ctx, dsink, dwrites, d_last, d_redirect,
                   result, res, returned, rvars, ovars>>

\* rx.await.unwrap()
DReturn ==
    /\ dpc = "sent"
    /\ oneshot # <<>>
    /\ returned' = Some(Head(oneshot))
    /\ dpc' = "returned"
    /\ UNCHANGED <<req_path, fn_name, headers, scope, ctx, dsink, dwrites, d_last, d_redirect,
                   result, res, oneshot, rvars, ovars>>

\* the server function panics: the worker thread unwinds and drops tx with
\* the scope and the runtime still live
DHandlerPanic ==
    /\ dpc = "handler"
    /\ dpc' = "panicked"
    /\ UNCHANGED <<req_path, fn_name, headers, scope, ctx, dsink, dwrites, d_last, d_redirect,
                   result, res, oneshot, returned, rvars, ovars>>

\* rx.await is Err(Canceled): unwrap() panics in the calling task
DCallerPanic ==
    /\ dpc = "panicked"
    /\ dpc' = "caller_panicked"
    /\ UNCHANGED <<req_path, fn_name, headers, scope, ctx, dsink, dwrites, d_last, d_redirect,
                   result, res, oneshot, returned, rvars, ovars>>

DNext ==
    \/ DNormalize
    \/ DLookupHit
    \/ DLookupMiss
    \/ DCreateScope
    \/ DAdditionalContext
    \/ DRequestParts
    \/ DProvideSink
    \/ DHandlerWrite
    \/ DHandlerRedirect
    \/ DHandlerOk
    \/ DHandlerErr
    \/ DDispose
    \/ DBuildSuccess
    \/ DBuildFailure
    \/ DHandlerPanic
    \/ DCallerPanic
    \/ DSend
    \/ DReturn

(***************************************************************************)
(* The streaming render pipeline: render_app_to_stream_with_context.       *)
(***************************************************************************)
\* the chunks of the HTML stream
HeadChunk == <<"head", 0>>
TailChunk == <<"tail", 0>>
Frag(i) == <<"frag", i>>

\* how many chunks the handler pulls before it builds the response
EagerPulls == 3

\* the handler has pulled first_chunk, second_chunk and third_chunk
eager_pull_done_after_two(chunks) == Len(chunks) = 2
eager_pull_done(chunks) == Len(chunks) = EagerPulls

\* futures::stream::iter([first_chunk.unwrap(), second_chunk.unwrap(),
\* third_chunk.unwrap()]), the front of complete_stream
splice_repeating_first(chunks) == [i \in 1..Len(chunks) |-> Unwrap(chunks[1])]
splice_swapped(chunks) ==
    [i \in 1..Len(chunks) |-> Unwrap(chunks[IF i = 1 THEN 2 ELSE IF i = 2 THEN 1 ELSE i])]
splice(chunks) == [i \in 1..Len(chunks) |-> Unwrap(chunks[i])]

\* Response::new(..), then the status override and the headers of the sink
render_response_without_status(parts) ==
    [status  |-> StatusOK,
     headers |-> HeaderMapExtend(EmptyHeaders, parts.headers)]
render_response(parts) ==
    [status  |-> UnwrapOr(parts.status, StatusOK),
     headers |-> HeaderMapExtend(EmptyHeaders, parts.headers)]

\* the names whose earlier values a sink call removes
NamesReplaced(o) ==
    CASE o.op = "insert_header" -> {o.k}
      [] o.op = "overwrite"     -> HeaderNames
      [] OTHER                  -> {}

RInit ==
    /\ wpc = "spawned"
    /\ cpc = "pull"
    /\ rscope = "none"
    /\ emitted = 0
    /\ chan = <<>>
    /\ parked = FALSE
    /\ tx_closed = FALSE
    /\ rx_dropped = FALSE
    /\ rsink = DefaultResponseParts
    /\ rwrites = 0
    /\ stream_pos = "head"
    /\ pulled = <<>>
    /\ response = None
    /\ body = <<>>
    /\ delivered = <<>>
    /\ early = DefaultResponseParts
    /\ late_status = FALSE
    /\ late_names = {}
    /\ late_write = FALSE

\* ---- the chained stream: once(head).chain(rx).chain(once(tail)) ----
\* the next poll of the stream is Ready: only the channel can be Pending
StreamReady == stream_pos # "rx" \/ chan # <<>> \/ tx_closed
\* the receiver yields a queued fragment
RecvFragment == stream_pos = "rx" /\ chan # <<>>
\* what the next poll yields: Some(chunk), or None at the end
StreamItem ==
    CASE stream_pos = "head" -> Some(HeadChunk)
      [] RecvFragment        -> Some(Head(chan))
      [] stream_pos = "rx"   -> Some(TailChunk)
      [] OTHER               -> None
\* the effect of the poll; a received message unparks the sender
StreamAdvance ==
    /\ stream_pos' = IF stream_pos = "head" \/ RecvFragment THEN "rx" ELSE "end"
    /\ chan' = IF RecvFragment THEN Tail(chan) ELSE chan
    /\ parked' = IF RecvFragment THEN FALSE ELSE parked

\* ---- the worker thread ----
\* the runtime and the scope are built, the contexts provided, the view made
RWorkerStart ==
    /\ wpc = "spawned"
    /\ rscope' = "live"
    /\ wpc' = "rendering"
    /\ UNCHANGED <<cpc, emitted, chan, parked, tx_closed, rx_dropped, rsink, rwrites,
                   stream_pos, pulled, response, body, delivered, early, late_status,
                   late_names, late_write, dvars, ovars>>

\* a component or resource calls one operation of the Response Sink
RComponentWrite ==
    /\ wpc \in {"rendering", "flush"}
    /\ rwrites < MaxRenderWrites
    /\ \E o \in ComponentOps :
        /\ rsink' = ApplySinkOp(rsink, o)
        /\ early' = IF emitted < 2 THEN ApplySinkOp(rsink, o) ELSE early
        /\ late_status' =
             (late_status \/ (emitted >= 2 /\ response = None /\ WritesStatus(o)))
        /\ late_names' =
             IF emitted >= 2 /\ response = None
             THEN late_names \cup NamesReplaced(o) ELSE late_names
    /\ late_write' = (late_write \/ response # None)
    /\ rwrites' = rwrites + 1
    /\ UNCHANGED <<wpc, cpc, rscope, emitted, chan, parked, tx_closed, rx_dropped,
                   stream_pos, pulled, response, body, delivered, dvars, ovars>>

\* a variant of the step below: the send never suspends the worker
REmit_without_backpressure ==
    /\ wpc = "rendering"
    /\ emitted < MaxFrags
    /\ emitted' = emitted + 1
    /\ IF rx_dropped
       THEN UNCHANGED <<chan, parked, wpc>>
       ELSE /\ chan' = Append(chan, Frag(emitted + 1))
            /\ UNCHANGED <<parked, wpc>>
    /\ UNCHANGED <<cpc, rscope, tx_closed, rx_dropped, rsink, rwrites, stream_pos,
                   pulled, response, body, delivered, early, late_status,
                   late_names, late_write, dvars, ovars>>

\* a variant of the step below: the result of the send is unwrapped
REmit_unwrapping_send ==
    /\ wpc = "rendering"
    /\ emitted < MaxFrags
    /\ emitted' = emitted + 1
    /\ IF rx_dropped
       THEN wpc' = "panicked" /\ UNCHANGED <<chan, parked>>
       ELSE /\ chan' = Append(chan, Frag(emitted + 1))
            /\ parked' = (Len(chan) + 1 > ChanBuffer)
            /\ wpc' = IF Len(chan) + 1 > ChanBuffer THEN "flush" ELSE "rendering"
    /\ UNCHANGED <<cpc, rscope, tx_closed, rx_dropped, rsink, rwrites, stream_pos,
                   pulled, response, body, delivered, early, late_status,
                   late_names, late_write, dvars, ovars>>

\* shell.next() yields a fragment; tx.send(fragment).await queues it, parks the
\* sender when the queue is over the buffer, and ignores a dropped receiver
REmit ==
    /\ wpc = "rendering"
    /\ emitted < MaxFrags
    /\ emitted' = emitted + 1
    /\ IF rx_dropped
       THEN UNCHANGED <<chan, parked, wpc>>
       ELSE /\ chan' = Append(chan, Frag(emitted + 1))
            /\ parked' = (Len(chan) + 1 > ChanBuffer)
            /\ wpc' = IF Len(chan) + 1 > ChanBuffer THEN "flush" ELSE "rendering"
    /\ UNCHANGED <<cpc, rscope, tx_closed, rx_dropped, rsink, rwrites, stream_pos,
                   pulled, response, body, delivered, early, late_status,
                   late_names, late_write, dvars, ovars>>

\* the send completes once the receiver has taken a message (or is gone)
RFlush ==
    /\ wpc = "flush"
    /\ ~parked
    /\ wpc' = "rendering"
    /\ UNCHANGED <<cpc, rscope, emitted, chan, parked, tx_closed, rx_dropped, rsink,
                   rwrites, stream_pos, pulled, response, body, delivered, early,
                   late_status, late_names, late_write, dvars, ovars>>

\* a variant of the step below: the channel is closed as the stream ends
RStreamEnd_closing_channel ==
    /\ wpc = "rendering"
    /\ wpc' = "stream_done"
    /\ tx_closed' = TRUE
    /\ UNCHANGED <<cpc, rscope, emitted, chan, parked, rx_dropped, rsink,
                   rwrites, stream_pos, pulled, response, body, delivered, early,
                   late_status, late_names, late_write, dvars, ovars>>

\* shell.next() yields None
RStreamEnd ==
    /\ wpc = "rendering"
    /\ wpc' = "stream_done"
    /\ UNCHANGED <<cpc, rscope, emitted, chan, parked, tx_closed, rx_dropped, rsink,
                   rwrites, stream_pos, pulled, response, body, delivered, early,
                   late_status, late_names, late_write, dvars, ovars>>

\* new_res_parts = res_options.0.read().await.clone();
\* *res_options2.0.write().await = new_res_parts: both name the request's cell
RCopyBack ==
    /\ wpc = "stream_done"
    /\ rsink' = overwrite(rsink, rsink)
    /\ wpc' = "copied"
    /\ UNCHANGED <<cpc, rscope, emitted, chan, parked, tx_closed, rx_dropped, rwrites,
                   stream_pos, pulled, response, body, delivered, early, late_status,
                   late_names, late_write, dvars, ovars>>

\* runtime.dispose()
RDispose ==
    /\ wpc = "copied"
    /\ rscope' = "disposed"
    /\ wpc' = "disposed"
    /\ UNCHANGED <<cpc, emitted, chan, parked, tx_closed, rx_dropped, rsink, rwrites,
                   stream_pos, pulled, response, body, delivered, early, late_status,
                   late_names, late_write, dvars, ovars>>

\* tx.close_channel()
RCloseChannel ==
    /\ wpc = "disposed"
    /\ tx_closed' = TRUE
    /\ wpc' = "done"
    /\ UNCHANGED <<cpc, rscope, emitted, chan, parked, rx_dropped, rsink, rwrites,
                   stream_pos, pulled, response, body, delivered, early, late_status,
                   late_names, late_write, dvars, ovars>>

\* ---- the calling side ----
\* first_chunk, second_chunk, third_chunk = stream.next().await
RPull ==
    /\ cpc = "pull"
    /\ ~eager_pull_done(pulled)
    /\ StreamReady
    /\ pulled' = Append(pulled, StreamItem)
    /\ StreamAdvance
    /\ UNCHANGED <<wpc, cpc, rscope, emitted, tx_closed, rx_dropped, rsink, rwrites,
                   response, body, delivered, early, late_status, late_names,
                   late_write, dvars, ovars>>

\* the sink is read and the Response built from it, under the read guard
RRespond ==
    /\ cpc = "pull"
    /\ eager_pull_done(pulled)
    /\ \A i \in 1..Len(pulled) : IsSome(pulled[i])
    /\ response' = Some(render_response(rsink))
    /\ body' = splice(pulled)
    /\ cpc' = "returned"
    /\ UNCHANGED <<wpc, rscope, emitted, chan, parked, tx_closed, rx_dropped, rsink,
                   rwrites, stream_pos, pulled, delivered, early, late_status,
                   late_names, late_write, dvars, ovars>>

\* a chunk is None: unwrap() panics, and the stream is dropped with the future
RUnwrapPanic ==
    /\ cpc = "pull"
    /\ eager_pull_done(pulled)
    /\ \E i \in 1..Len(pulled) : ~IsSome(pulled[i])
    /\ cpc' = "panicked"
    /\ rx_dropped' = TRUE
    /\ chan' = <<>>
    /\ parked' = FALSE
    /\ UNCHANGED <<wpc, rscope, emitted, tx_closed, rsink, rwrites, stream_pos,
                   pulled, response, body, delivered, early, late_status, late_names,
                   late_write, dvars, ovars>>

\* the connection goes away while the handler awaits one of its three chunks:
\* the handler's future is dropped, and the stream with the receiver in it
HttpCancel ==
    /\ cpc = "pull"
    /\ cpc' = "cancelled"
    /\ rx_dropped' = TRUE
    /\ chan' = <<>>
    /\ parked' = FALSE
    /\ UNCHANGED <<wpc, rscope, emitted, tx_closed, rsink, rwrites, stream_pos,
                   pulled, response, body, delivered, early, late_status, late_names,
                   late_write, dvars, ovars>>

\* ---- the HTTP layer reads the body of the returned Response ----
\* one of the three re-spliced chunks
HttpPollSpliced ==
    /\ cpc = "returned"
    /\ body # <<>>
    /\ delivered' = Append(delivered, Head(body))
    /\ body' = Tail(body)
    /\ UNCHANGED <<wpc, cpc, rscope, emitted, chan, parked, tx_closed, rx_dropped,
                   rsink, rwrites, stream_pos, pulled, response, early, late_status,
                   late_names, late_write, dvars, ovars>>

\* then the rest of the stream, to its end
HttpPollStream ==
    /\ cpc = "returned"
    /\ body = <<>>
    /\ StreamReady
    /\ IF IsSome(StreamItem)
       THEN /\ delivered' = Append(delivered, Unwrap(StreamItem))
            /\ cpc' = cpc
       ELSE /\ delivered' = delivered
            /\ cpc' = "body_done"
    /\ StreamAdvance
    /\ UNCHANGED <<wpc, rscope, emitted, tx_closed, rx_dropped, rsink, rwrites,
                   pulled, response, body, early, late_status, late_names,
                   late_write, dvars, ovars>>

\* the transport abandons the response: the body, and the receiver in it, drop
HttpDrop ==
    /\ cpc = "returned"
    /\ cpc' = "dropped"
    /\ rx_dropped' = TRUE
    /\ chan' = <<>>
    /\ parked' = FALSE
    /\ UNCHANGED <<wpc, rscope, emitted, tx_closed, rsink, rwrites, stream_pos,
                   pulled, response, body, delivered, early, late_status, late_names,
                   late_write, dvars, ovars>>

RNext ==
    \/ RWorkerStart
    \/ RComponentWrite
    \/ REmit
    \/ RFlush
    \/ RStreamEnd
    \/ RCopyBack
    \/ RDispose
    \/ RCloseChannel
    \/ RPull
    \/ RRespond
    \/ RUnwrapPanic
    \/ HttpCancel
    \/ HttpPollSpliced
    \/ HttpPollStream
    \/ HttpDrop

(***************************************************************************)
(* Specifications.  The two handlers serve separate requests and share no  *)
(* state, so each is checked on its own.                                   *)
(***************************************************************************)
\* the other machines at rest
OIdle == SIdle /\ QIdle /\ GIdle /\ TIdle /\ CIdle /\ MIdle /\ LIdle /\ EIdle

\* a server-function request arrives; no render is under way
InitDispatch == DInit /\ RInit /\ OIdle
\* a page request arrives; no server-function request is in flight
InitRender == DIdle /\ RInit /\ OIdle

SpecDispatch == InitDispatch /\ [][DNext]_vars
\* the worker thread and the calling task both run whenever they can
SpecDispatchFair == InitDispatch /\ [][DNext]_vars /\ WF_vars(DNext)
SpecRender == InitRender /\ [][RNext]_vars

\* the steps of the render worker: its blocking thread runs whenever it can,
\* and the view engine's stream of fragments is finite
RWorkerNext ==
    \/ RWorkerStart
    \/ REmit
    \/ RFlush
    \/ RStreamEnd
    \/ RCopyBack
    \/ RDispose
    \/ RCloseChannel

SpecRenderFair == InitRender /\ [][RNext]_vars /\ WF_vars(RWorkerNext)

(***************************************************************************)
(* Vocabulary of the properties.                                           *)
(***************************************************************************)
IsPrefix(a, b) == Len(a) <= Len(b) /\ SubSeq(b, 1, Len(a)) = a
\* n occurs in b as a contiguous run
Contains(b, n) ==
    \E i \in 1..(Len(b) - Len(n) + 1) : SubSeq(b, i, i + Len(n) - 1) = n
\* every value src holds for a name is among the values dst holds for it
HeadersCarried(src, dst) ==
    \A n \in HeaderNames : \A i \in DOMAIN src[n] : \E j \in DOMAIN dst[n] :
        dst[n][j] = src[n][i]

\* what a streamed body must be: head, the emitted fragments in order, tail
ExpectedBody == <<HeadChunk>> \o [i \in 1..emitted |-> Frag(i)] \o <<TailChunk>>
\* the fragment stream has ended
RenderEnded == wpc \in {"stream_done", "copied", "disposed", "done"}
\* the render handler returned this response
Resp == Unwrap(response)

\* handle_server_fns_inner has handed back a response
Dispatched == dpc = "returned"
Handed == Unwrap(returned)
\* the server function ran and returned Ok / Err
HandlerSucceeded == IsSome(result) /\ Unwrap(result).kind # "Err"
HandlerFailed == IsSome(result) /\ Unwrap(result).kind = "Err"
\* the three payload media types
PayloadMediaTypes ==
    {"application/json", "application/x-www-form-urlencoded", "application/cbor"}
\* the media types an Accept value lists
AcceptEntries(text) ==
    IF text = "application/json, text/html"
    THEN {"application/json", "text/html"} ELSE {text}
\* the request's Accept header is exactly one of the payload media types
AcceptIsExactly(types) == \E t \in types : headers.accept = Some(Text(t))
\* the request's Accept header lists a payload media type, alone or not
AcceptIndicatesPayload ==
    /\ IsSome(headers.accept)
    /\ Unwrap(headers.accept).ascii
    /\ AcceptEntries(Unwrap(headers.accept).bytes) \cap PayloadMediaTypes # {}
\* the function path without its one leading separator
WithoutLeadingSlash(p) == IF p # <<>> /\ p[1] = "/" THEN SubSeq(p, 2, Len(p)) ELSE p

(***************************************************************************)
(* C1.  When the HTTP layer has read the body of a streamed render to its  *)
(* end, the chunks it read are the shell head, then every fragment the     *)
(* view engine emitted, in emission order and once each, then the shell    *)
(* tail; and at every moment the chunks read and the re-spliced chunks     *)
(* still to read are a prefix of that sequence, so the eager pull of three *)
(* chunks reorders nothing.                                                *)
(***************************************************************************)
C1_StreamOrder ==
    /\ IsPrefix(delivered \o body, ExpectedBody)
    /\ cpc = "body_done" => delivered = ExpectedBody

\* a body read to its end that went past the three eagerly pulled chunks
C1_Witness == cpc = "body_done" /\ emitted >= 4 /\ Len(delivered) = emitted + 2

C3_EarlyWritesReachResponse ==
    response # None =>
        /\ Len(pulled) = 3
        /\ pulled[1] = Some(HeadChunk)
        /\ pulled[2] = Some(Frag(1))
        /\ pulled[3] \in {Some(Frag(2)), Some(TailChunk)}
        /\ (IsSome(early.status) /\ ~late_status) =>
               Resp.status = Unwrap(early.status)
        /\ \A n \in HeaderNames :
               n \notin late_names => IsPrefix(early.headers[n], Resp.headers[n])

\* a status and a header written before the second fragment was emitted
\* reached the response of a render of three fragments or more
C3_Witness ==
    /\ response # None
    /\ emitted >= 3
    /\ early.status = Some(201)
    /\ early.headers["location"] = <<"v1">>
    /\ Resp.status = 201
    /\ Resp.headers["location"] = <<"v1">>

(***************************************************************************)
(* C4.  After a successful dispatch whose server function wrote a status   *)
(* to the sink, the response's status is the one written last, whether     *)
(* content negotiation chose 200 or the 303 redirect.                      *)
(***************************************************************************)
C4_StatusOverrideWins ==
    (Dispatched /\ HandlerSucceeded /\ IsSome(d_last)) =>
        Handed.status = Unwrap(d_last)

\* two sink calls, the last status 201, on a request answered by a redirect
C4_Witness ==
    /\ Dispatched /\ HandlerSucceeded
    /\ dwrites = 2
    /\ d_last = Some(201)
    /\ ~AcceptIsExactly(PayloadMediaTypes)
    /\ Handed.status = 201

(***************************************************************************)
(* C5, as claimed.  After a successful dispatch the response has exactly   *)
(* one Content-Type value, the media type of the payload variant, whatever *)
(* headers the server function added through the sink.                     *)
(***************************************************************************)
C5_OneContentType ==
    (Dispatched /\ HandlerSucceeded) =>
        Handed.headers["content-type"] =
            <<payload_content_type(Unwrap(result).kind)>>

(***************************************************************************)
(* C6, as claimed.  After a successful dispatch of a request with          *)
(* Accept: application/json the status is not 303, whatever the server     *)
(* function wrote to the sink.                                             *)
(***************************************************************************)
C6_JsonNeverRedirects ==
    (Dispatched /\ HandlerSucceeded /\ AcceptIsExactly({"application/json"})) =>
        Handed.status # StatusSeeOther

(***************************************************************************)
(* C6, amended.  After a successful dispatch of a request with             *)
(* Accept: application/json the status is not 303, unless 303 is the       *)
(* status the server function itself left in the sink.                     *)
(***************************************************************************)
C6_JsonRedirectsOnlyByOverride ==
    (Dispatched /\ HandlerSucceeded /\ AcceptIsExactly({"application/json"})
       /\ d_last # Some(StatusSeeOther)) =>
        Handed.status # StatusSeeOther

\* a JSON request whose server function wrote headers but no status
C6_Witness ==
    /\ Dispatched /\ HandlerSucceeded /\ AcceptIsExactly({"application/json"})
    /\ dwrites = 2
    /\ d_last = None
    /\ Handed.status = StatusOK

(***************************************************************************)
(* C7, as claimed, for a Referer that is absent or visible ASCII.  After a *)
(* successful dispatch with no status override, of a request whose Accept  *)
(* is absent or none of the three payload media types, the status is 303   *)
(* and the Location header is the Referer's value, or "/" without Referer. *)
(***************************************************************************)
C7_RedirectToReferer ==
    (Dispatched /\ HandlerSucceeded /\ dsink.status = None
       /\ ~AcceptIsExactly(PayloadMediaTypes)
       /\ headers.referer # Some(OpaqueValue)) =>
        /\ Handed.status = StatusSeeOther
        /\ Handed.headers["location"] =
             <<IF headers.referer = None THEN "/" ELSE Unwrap(headers.referer).bytes>>

(***************************************************************************)
(* C8, as claimed.  After a successful dispatch with no status override,   *)
(* of a request whose Accept lists a payload media type, alone or as one   *)
(* entry of a longer value, the status is 200 and the dispatcher adds no   *)
(* Location header.                                                        *)
(***************************************************************************)
C8_AcceptListedMeansOk ==
    (Dispatched /\ HandlerSucceeded /\ dsink.status = None /\ AcceptIndicatesPayload) =>
        /\ Handed.status = StatusOK
        /\ Handed.headers["location"] = dsink.headers["location"]

(***************************************************************************)
(* C8, amended.  After a successful dispatch with no status override, of a *)
(* request whose Accept value is exactly one of the three payload media    *)
(* types, the status is 200 and the dispatcher adds no Location header:    *)
(* the response's Location values are those the sink holds.                *)
(***************************************************************************)
C8_AcceptExactMeansOk ==
    (Dispatched /\ HandlerSucceeded /\ dsink.status = None
       /\ AcceptIsExactly(PayloadMediaTypes)) =>
        /\ Handed.status = StatusOK
        /\ Handed.headers["location"] = dsink.headers["location"]

\* a CBOR request answered with 200 and no Location
C8_Witness ==
    /\ Dispatched /\ HandlerSucceeded /\ dsink.status = None
    /\ AcceptIsExactly({"application/cbor"})
    /\ Handed.status = StatusOK
    /\ Handed.headers["location"] = <<>>

(***************************************************************************)
(* C9.  A request for a function path whose normalized name (the path      *)
(* without its one leading "/") is not registered is answered with status  *)
(* 400 and a body that contains the normalized name.                       *)
(***************************************************************************)
C9_UnregisteredIs400 ==
    (Dispatched /\ WithoutLeadingSlash(req_path) \notin Registered) =>
        /\ Handed.status = StatusBadRequest
        /\ Contains(Handed.body, WithoutLeadingSlash(req_path))

\* the path "//f": its normalized name "/f" is not registered
C9_Witness ==
    /\ Dispatched
    /\ req_path = <<"/", "/", "f">>
    /\ Handed.status = StatusBadRequest

(***************************************************************************)
(* C10.  When the server function returns a failure the response has       *)
(* status 500 and the failure's description as its body, whatever the      *)
(* function wrote to the sink and whatever the Accept and Referer are.     *)
(***************************************************************************)
C10_FailureIs500 ==
    (Dispatched /\ HandlerFailed) =>
        /\ Handed.status = StatusInternalServerError
        /\ Handed.body = <<Unwrap(result).data>>

\* a failure after the function set a status, on a JSON request with Referer
C10_Witness ==
    /\ Dispatched /\ HandlerFailed
    /\ dsink.status = Some(201)
    /\ AcceptIsExactly({"application/json"})
    /\ headers.referer = Some(Text("/foo"))
    /\ Handed.status = StatusInternalServerError

(***************************************************************************)
(* C11, as claimed.  When the dispatcher hands its response back (the      *)
(* worker has sent it on the completion channel), the execution scope it   *)
(* created, if any, is disposed: after a success and after a failure.      *)
(***************************************************************************)
C11_ScopeDisposedBeforeResponse ==
    (dpc \in {"sent", "returned"}) => scope \in {"none", "disposed"}

(***************************************************************************)
(* C15, as claimed.  When a server function calls redirect(cx, path) and   *)
(* then succeeds, with no sink call after the redirect, the response has   *)
(* status 302 and exactly one Location value, equal to path, whatever the  *)
(* request's Accept and Referer headers are.                               *)
(***************************************************************************)
C15_RedirectSetsOneLocation ==
    (Dispatched /\ HandlerSucceeded /\ IsSome(d_redirect)) =>
        /\ Handed.status = StatusFound
        /\ Handed.headers["location"] = <<Unwrap(d_redirect)>>

(***************************************************************************)
(* Concurrent contributors of one sink (ResponseOptions, lib.rs:57-84).    *)
(* Every contributor makes one call; the calls interleave at the await of  *)
(* the writer lock.                                                        *)
(***************************************************************************)
Contributors == 1..MaxContributors

\* the sink holds what earlier calls left: nothing, or a status and two
\* values of one name
SinkStarts ==
    { DefaultResponseParts,
      [status |-> Some(201),
       headers |-> [EmptyHeaders EXCEPT !["set-cookie"] = <<"v1", "v2">>]] }

SInit ==
    /\ s_pc = [c \in Contributors |-> "idle"]
    /\ s_call = [c \in Contributors |-> NoCall]
    /\ s_lock = None
    /\ s_parts \in SinkStarts
    /\ s_start = s_parts
    /\ s_prev = s_parts
    /\ s_last = None
    /\ s_order = <<>>

\* a contributor calls an operation: self.0.write().await is pending
SCall(c) ==
    /\ s_pc[c] = "idle"
    /\ \E o \in SinkOps : s_call' = [s_call EXCEPT ![c] = o]
    /\ s_pc' = [s_pc EXCEPT ![c] = "waiting"]
    /\ UNCHANGED <<s_lock, s_parts, s_start, s_prev, s_last, s_order>>

\* let mut writable = self.0.write().await: granted when no one holds it
SAcquire(c) ==
    /\ s_pc[c] = "waiting"
    /\ s_lock = None
    /\ s_lock' = Some(c)
    /\ s_order' = Append(s_order, c)
    /\ s_pc' = [s_pc EXCEPT ![c] = "writing"]
    /\ UNCHANGED <<s_call, s_parts, s_start, s_prev, s_last>>

\* the mutation through the guard
SMutate(c) ==
    /\ s_pc[c] = "writing"
    /\ s_lock = Some(c)
    /\ s_parts' = ApplySinkOp(s_parts, s_call[c])
    /\ s_prev' = s_parts
    /\ s_last' = Some(s_call[c])
    /\ s_pc' = [s_pc EXCEPT ![c] = "written"]
    /\ UNCHANGED <<s_call, s_lock, s_start, s_order>>

\* the guard is dropped when the operation returns
SRelease(c) ==
    /\ s_pc[c] = "written"
    /\ s_lock = Some(c)
    /\ s_lock' = None
    /\ s_pc' = [s_pc EXCEPT ![c] = "done"]
    /\ UNCHANGED <<s_call, s_parts, s_start, s_prev, s_last, s_order>>

SNext ==
    \E c \in Contributors :
        /\ \/ SCall(c)
           \/ SAcquire(c)
           \/ SMutate(c)
           \/ SRelease(c)
        /\ UNCHANGED <<dvars, rvars, qvars, gvars, tvars, cvars, mvars, lvars, evars>>

\* contributors start calling a sink; no request is in either handler
InitSink == DIdle /\ RInit /\ SInit /\ QIdle /\ GIdle /\ TIdle /\ CIdle /\ MIdle /\ LIdle /\ EIdle

SpecSink == InitSink /\ [][SNext]_vars

\* the contributor's mutation has happened
Mutated(c) == s_pc[c] \in {"written", "done"}
\* the values the contributors have appended to name k, in lock order
AppendedTo(k) ==
    LET cs == SelectSeq(s_order, LAMBDA c : Mutated(c) /\ s_call[c].k = k)
    IN  [i \in 1..Len(cs) |-> s_call[cs[i]].v]

(***************************************************************************)
(* C12.  When concurrent contributors call append-header on the sink, for  *)
(* the same name or for different names, every appended value persists in  *)
(* every interleaving: each name holds the values it held before followed  *)
(* by every value appended to it.                                          *)
(***************************************************************************)
C12_ConcurrentAppendsPersist ==
    (\A c \in Contributors : Mutated(c) => s_call[c].op = "append_header") =>
        \A k \in HeaderNames :
            s_parts.headers[k] = s_start.headers[k] \o AppendedTo(k)

\* two contributors appended to the name that already held two values
C12_Witness ==
    /\ \A c \in {1, 2} :
        s_pc[c] = "done" /\ s_call[c].op = "append_header"
                         /\ s_call[c].k = "set-cookie"
    /\ \A c \in Contributors : Mutated(c) => c \in {1, 2}
    /\ s_parts.headers["set-cookie"] = <<"v1", "v2", "v2", "v2">>

(***************************************************************************)
(* C13.  After set-status calls by concurrent contributors, the sink's     *)
(* status is the status of the call that acquired the writer lock last     *)
(* (no overwrite having acquired it later).                                *)
(***************************************************************************)
C13_LastSetStatusWins ==
    \A i \in DOMAIN s_order :
        LET c == s_order[i] IN
        ( /\ Mutated(c)
          /\ s_call[c].op = "set_status"
          /\ \A j \in DOMAIN s_order :
                (j > i /\ Mutated(s_order[j])) => ~WritesStatus(s_call[s_order[j]]) )
        => s_parts.status = Some(s_call[c].s)

\* two set-status calls with different statuses, on a sink that had a status
C13_Witness ==
    /\ Len(s_order) >= 2
    /\ \A i \in {1, 2} :
        s_pc[s_order[i]] = "done" /\ s_call[s_order[i]].op = "set_status"
    /\ s_call[s_order[1]].s = StatusSeeOther
    /\ s_call[s_order[2]].s = 201
    /\ \A c \in Contributors : Mutated(c) => c \in {s_order[1], s_order[2]}
    /\ s_start.status = Some(201)
    /\ s_prev.status = Some(StatusSeeOther)
    /\ s_parts.status = Some(201)

(***************************************************************************)
(* C14.  Insert-header leaves exactly the inserted value for its name and  *)
(* every other name unchanged; append-header keeps every earlier value of  *)
(* its name and puts the new value after them.                             *)
(***************************************************************************)
C14_InsertReplacesAppendAdds ==
    \A o \in s_last :
        /\ o.op = "insert_header" =>
            /\ s_parts.headers[o.k] = <<o.v>>
            /\ \A n \in HeaderNames \ {o.k} :
                s_parts.headers[n] = s_prev.headers[n]
        /\ o.op = "append_header" =>
            s_parts.headers[o.k] = s_prev.headers[o.k] \o <<o.v>>

\* an insert on the name that held three values, another name being set
C14_Witness ==
    /\ s_last = Some([op |-> "insert_header", k |-> "set-cookie", v |-> "v1"])
    /\ s_prev.headers["set-cookie"] = <<"v1", "v2", "v2">>
    /\ s_parts.headers["set-cookie"] = <<"v1">>
    /\ s_parts.status = Some(201)

(***************************************************************************)
(* Requests in flight at the same time.  The render handler makes its sink *)
(* inside the per-request closure (lib.rs:411), the dispatcher provides a  *)
(* new one to the scope of the request (lib.rs:210); application code      *)
(* reaches the sink through the context of its own scope, and the handler  *)
(* reads it back for the response (lib.rs:228-233, 559).                   *)
(***************************************************************************)
Requests == 1..MaxRequests
\* odd requests are page renders, even ones server-function calls
HandlerOf(r) == IF r % 2 = 1 THEN "render" ELSE "dispatch"

\* the sink calls application code makes in this machine
RequestOps ==
    { [op |-> "set_status", s |-> 201],
      [op |-> "append_header", k |-> "set-cookie", v |-> "v2"] }

QInit ==
    /\ q_pc = [r \in Requests |-> "arrived"]
    /\ q_sink = [r \in Requests |-> 0]
    /\ heap = <<>>
    /\ q_writes = [r \in Requests |-> 0]
    /\ q_own = [r \in Requests |-> DefaultResponseParts]
    /\ q_read = [r \in Requests |-> None]

\* the handler starts on the request and makes its sink
QStart(r) ==
    /\ q_pc[r] = "arrived"
    /\ LET made == response_options_default(heap) IN
        /\ heap' = made.heap
        /\ q_sink' = [q_sink EXCEPT ![r] = made.handle]
    /\ q_pc' = [q_pc EXCEPT ![r] = "running"]
    /\ UNCHANGED <<q_writes, q_own, q_read>>

\* application code of the request calls an operation on the sink it finds
\* in its scope
QWrite(r) ==
    /\ q_pc[r] = "running"
    /\ q_writes[r] < MaxHandlerWrites
    /\ \E o \in RequestOps :
        /\ heap' = [heap EXCEPT ![q_sink[r]] = ApplySinkOp(@, o)]
        /\ q_own' = [q_own EXCEPT ![r] = ApplySinkOp(@, o)]
    /\ q_writes' = [q_writes EXCEPT ![r] = @ + 1]
    /\ UNCHANGED <<q_pc, q_sink, q_read>>

\* the handler reads the sink for the status and headers of the response
QRespond(r) ==
    /\ \/ q_pc[r] = "running"
       \* a render whose worker panicked after the stream held three chunks
       \/ q_pc[r] = "panicked" /\ HandlerOf(r) = "render"
    /\ q_read' = [q_read EXCEPT ![r] = Some(heap[q_sink[r]])]
    /\ q_pc' = [q_pc EXCEPT ![r] = "responded"]
    /\ UNCHANGED <<q_sink, heap, q_writes, q_own>>

\* a variant of the step below: the sender outlives the panic
QPanic_keeping_sender(r) ==
    /\ q_pc[r] = "running"
    /\ q_pc' = [q_pc EXCEPT ![r] = "hung"]
    /\ UNCHANGED <<q_sink, heap, q_writes, q_own, q_read>>

\* the worker thread of the request panics, in the server function or in the
\* construction of the view: the unwinding drops its sender (tx)
QPanic(r) ==
    /\ q_pc[r] = "running"
    /\ q_pc' = [q_pc EXCEPT ![r] = "panicked"]
    /\ UNCHANGED <<q_sink, heap, q_writes, q_own, q_read>>

\* the calling side finds its channel ended: rx.await.unwrap() on Canceled,
\* or the unwrap() of a chunk that is None
QCallerFails(r) ==
    /\ q_pc[r] = "panicked"
    /\ q_pc' = [q_pc EXCEPT ![r] = "failed"]
    /\ UNCHANGED <<q_sink, heap, q_writes, q_own, q_read>>

QStep(r) ==
    \/ QStart(r)
    \/ QWrite(r)
    \/ QRespond(r)
    \/ QPanic(r)
    \/ QCallerFails(r)

QNext ==
    \E r \in Requests :
        /\ QStep(r)
        /\ UNCHANGED <<dvars, rvars, svars, gvars, tvars, cvars, mvars, lvars, evars>>

\* requests arrive at the handlers
InitRequests == DIdle /\ RInit /\ SIdle /\ QInit /\ GIdle /\ TIdle /\ CIdle /\ MIdle /\ LIdle /\ EIdle

SpecRequests == InitRequests /\ [][QNext]_vars

DataFrame(bytes) == [kind |-> "data", bytes |-> bytes]
ErrorFrame == [kind |-> "error", bytes |-> <<>>]
Frames == {DataFrame(<<1>>), DataFrame(<<2, 3>>), ErrorFrame}
BodyStreams == UNION {[1..n -> Frames] : n \in 0..MaxBodyFrames}

RequestInputs ==
    [ version : {"HTTP/1.1", "HTTP/2.0"},
      method  : {"GET", "POST"},
      uri     : {"/", "/api/f?x=1"},
      headers : {EmptyHeaders,
                 [EmptyHeaders EXCEPT !["content-type"] = <<"v1">>]},
      body    : BodyStreams ]

Ok(v) == [ok |-> TRUE, val |-> v]
Err == [ok |-> FALSE, val |-> <<>>]
\* Result<Bytes, _>::unwrap_or_default(): Bytes::default() is empty
unwrap_or_default(r) == IF r.ok THEN r.val ELSE <<>>

\* a variant that keeps no body at all
request_parts_without_body(req, drained) ==
    [ method  |-> req.method,
      uri     |-> req.uri,
      headers |-> req.headers,
      version |-> req.version,
      body    |-> <<>> ]
\* RequestParts { method, uri, headers, version, body }
request_parts(req, drained) ==
    [ method  |-> req.method,
      uri     |-> req.uri,
      headers |-> req.headers,
      version |-> req.version,
      body    |-> unwrap_or_default(drained) ]

GInit ==
    /\ g_pc = "start"
    /\ g_req \in RequestInputs
    /\ g_pos = 0
    /\ g_buf = <<>>
    /\ g_drained = None
    /\ g_parts = None

\* let (parts, body) = req.into_parts(); to_bytes starts polling
GIntoParts ==
    /\ g_pc = "start"
    /\ g_pc' = "draining"
    /\ UNCHANGED <<g_req, g_pos, g_buf, g_drained, g_parts>>

\* to_bytes polls a data frame and keeps its bytes
GPollData ==
    /\ g_pc = "draining"
    /\ g_pos < Len(g_req.body)
    /\ g_req.body[g_pos + 1].kind = "data"
    /\ g_buf' = g_buf \o g_req.body[g_pos + 1].bytes
    /\ g_pos' = g_pos + 1
    /\ UNCHANGED <<g_pc, g_req, g_drained, g_parts>>

\* to_bytes polls an error frame: it returns Err and drops what it had read
GPollError ==
    /\ g_pc = "draining"
    /\ g_pos < Len(g_req.body)
    /\ g_req.body[g_pos + 1].kind = "error"
    /\ g_drained' = Some(Err)
    /\ g_buf' = <<>>
    /\ g_pos' = g_pos + 1
    /\ g_pc' = "drained"
    /\ UNCHANGED <<g_req, g_parts>>

\* the stream ends: to_bytes returns Ok with the bytes it collected
GPollEnd ==
    /\ g_pc = "draining"
    /\ g_pos = Len(g_req.body)
    /\ g_drained' = Some(Ok(g_buf))
    /\ g_pc' = "drained"
    /\ UNCHANGED <<g_req, g_pos, g_buf, g_parts>>

\* .unwrap_or_default(); RequestParts { .. } is returned
GBuildParts ==
    /\ g_pc = "drained"
    /\ g_parts' = Some(request_parts(g_req, Unwrap(g_drained)))
    /\ g_pc' = "done"
    /\ UNCHANGED <<g_req, g_pos, g_buf, g_drained>>

GNext ==
    /\ \/ GIntoParts
       \/ GPollData
       \/ GPollError
       \/ GPollEnd
       \/ GBuildParts
    /\ UNCHANGED <<dvars, rvars, svars, qvars, tvars, cvars, mvars, lvars, evars>>

\* generate_request_parts is called with a request
InitSnapshot == DIdle /\ RInit /\ SIdle /\ QIdle /\ GInit /\ TIdle /\ CIdle /\ MIdle /\ LIdle /\ EIdle

SpecSnapshot == InitSnapshot /\ [][GNext]_vars

\* the drain of this body fails
DrainFails(frames) == \E i \in DOMAIN frames : frames[i].kind = "error"
\* all the bytes of a body whose frames are all data
RECURSIVE AllBytes(_)
AllBytes(frames) ==
    IF frames = <<>> THEN <<>>
    ELSE AllBytes(SubSeq(frames, 1, Len(frames) - 1)) \o frames[Len(frames)].bytes

(***************************************************************************)
(* C17.  The Request Snapshot Builder never fails: it always goes on to    *)
(* return a snapshot.  The snapshot has the method, URI, version and       *)
(* headers of the request; its body is empty when the drain of the body    *)
(* fails and the complete body when the drain succeeds.                    *)
(***************************************************************************)
C17_SnapshotNeverFails ==
    /\ g_pc # "done" => ENABLED GNext
    /\ g_pc = "done" =>
        /\ g_parts # None
        /\ \A p \in g_parts :
            /\ p.method = g_req.method
            /\ p.uri = g_req.uri
            /\ p.version = g_req.version
            /\ p.headers = g_req.headers
            /\ DrainFails(g_req.body) => p.body = <<>>
            /\ ~DrainFails(g_req.body) => p.body = AllBytes(g_req.body)

\* the drain failed after a data frame had been read
C17_Witness ==
    /\ g_pc = "done"
    /\ g_req.method = "POST"
    /\ g_req.body = <<DataFrame(<<2, 3>>), ErrorFrame>>
    /\ g_drained = Some(Err)
    /\ g_parts # None
    /\ \A p \in g_parts : p.body = <<>> /\ p.uri = g_req.uri

(***************************************************************************)
(* generate_route_list (lib.rs:587-624).  The walk of the application is   *)
(* the router's; any list of paths may come out of it.                     *)
(***************************************************************************)
RoutePaths == {"", "/about", "/users/:id"}
RouteLists == UNION {[1..n -> RoutePaths] : n \in 0..MaxRoutes}

\* |s| if s.is_empty() { "/".to_string() } else { s }
root_path(s) == IF s = "" THEN "/" ELSE s
\* a variant that collects the mapped paths last first
map_root_paths_reversed(routes) ==
    [i \in DOMAIN routes |-> root_path(routes[Len(routes) + 1 - i])]
\* routes.into_iter().map(..).collect()
map_root_paths(routes) == [i \in DOMAIN routes |-> root_path(routes[i])]
\* a variant that returns the list as it is
root_if_empty_skipped(routes) == routes
\* if routes.is_empty() { vec!["/".to_string()] } else { routes }
root_if_empty(routes) == IF routes = <<>> THEN <<"/">> ELSE routes

TInit ==
    /\ t_pc = "start"
    /\ t_app \in RouteLists
    /\ t_walked = <<>>
    /\ t_cell = <<>>
    /\ t_routes = <<>>
    /\ t_result = None

\* let routes = leptos_router::generate_route_list_inner(app_fn)
TWalk ==
    /\ t_pc = "start"
    /\ t_walked' = t_app
    /\ t_pc' = "walked"
    /\ UNCHANGED <<t_app, t_cell, t_routes, t_result>>

\* *routes_inner.0.write().await = routes; the local task ends
TWrite ==
    /\ t_pc = "walked"
    /\ t_cell' = t_walked
    /\ t_pc' = "written"
    /\ UNCHANGED <<t_app, t_walked, t_routes, t_result>>

\* let routes = routes.0.read().await.to_owned()
TRead ==
    /\ t_pc = "written"
    /\ t_routes' = t_cell
    /\ t_pc' = "read"
    /\ UNCHANGED <<t_app, t_walked, t_cell, t_result>>

\* the empty paths become "/"
TMap ==
    /\ t_pc = "read"
    /\ t_routes' = map_root_paths(t_routes)
    /\ t_pc' = "mapped"
    /\ UNCHANGED <<t_app, t_walked, t_cell, t_result>>

\* an empty list becomes the list of "/"
TReturn ==
    /\ t_pc = "mapped"
    /\ t_result' = Some(root_if_empty(t_routes))
    /\ t_pc' = "done"
    /\ UNCHANGED <<t_app, t_walked, t_cell, t_routes>>

TNext ==
    /\ \/ TWalk
       \/ TWrite
       \/ TRead
       \/ TMap
       \/ TReturn
    /\ UNCHANGED <<dvars, rvars, svars, qvars, gvars, cvars, mvars, lvars, evars>>

\* generate_route_list is called with an application
InitRoutes == DIdle /\ RInit /\ SIdle /\ QIdle /\ GIdle /\ TInit /\ CIdle /\ MIdle /\ LIdle /\ EIdle

SpecRoutes == InitRoutes /\ [][TNext]_vars

(***************************************************************************)
(* C19.  Route enumeration never returns an empty list and never returns   *)
(* an empty path: an application with no routes gives the one path "/",    *)
(* and every empty path of the application is returned as "/".             *)
(***************************************************************************)
C19_RoutesNeverEmpty ==
    \A routes \in t_result :
        /\ routes # <<>>
        /\ \A i \in DOMAIN routes : routes[i] # ""
        /\ t_app = <<>> => routes = <<"/">>
        /\ t_app # <<>> =>
            /\ Len(routes) = Len(t_app)
            /\ \A i \in DOMAIN t_app : t_app[i] = "" => routes[i] = "/"

\* an application whose first and last paths are empty
C19_Witness ==
    /\ t_pc = "done"
    /\ t_app = <<"", "/about", "">>
    /\ t_result = Some(<<"/", "/about", "/">>)

\* an application with no routes
C19_WitnessNoRoutes ==
    /\ t_pc = "done"
    /\ t_app = <<>>
    /\ t_result = Some(<<"/">>)

(***************************************************************************)
(* C20.  Once the receiver of the fragment channel is dropped, at any      *)
(* point, the worker never blocks on a send: no fragment is queued and no  *)
(* sender stays parked, each later send fails and is ignored; the worker   *)
(* goes on consuming fragments to the end of the stream, then disposes     *)
(* the scope and terminates.                                               *)
(***************************************************************************)
C20_DroppedReceiverNeverBlocks ==
    /\ [](rx_dropped => (chan = <<>> /\ ~parked /\ wpc # "panicked"))
    /\ rx_dropped ~> (wpc = "done" /\ rscope = "disposed" /\ tx_closed)

\* the receiver went away under a parked sender, and the worker still ended
\* after emitting every fragment
C20_Witness ==
    /\ rx_dropped
    /\ cpc = "dropped"
    /\ emitted = MaxFrags
    /\ Len(delivered) < emitted
    /\ wpc = "done"
    /\ rscope = "disposed"

(***************************************************************************)
(* C21.  A panic in the worker thread of one request affects only that     *)
(* request: its calling side is never left waiting for a result that       *)
(* cannot come (it always has a step to take until it has answered or      *)
(* failed), and the response of every other request in flight shows        *)
(* exactly what that request's own calls wrote, as without the panic.      *)
(***************************************************************************)
C21_PanicStaysInItsRequest ==
    \A r \in Requests :
        /\ q_pc[r] \notin {"responded", "failed"} => ENABLED QStep(r)
        /\ (\E r2 \in Requests \ {r} : q_pc[r2] \in {"panicked", "failed"}) =>
            \A parts \in q_read[r] : parts = q_own[r]

\* the worker of the server-function request panicked and its caller failed,
\* while the render in flight answered with what it had written
C21_Witness ==
    /\ q_pc[2] = "failed"
    /\ q_writes[2] > 0
    /\ q_pc[1] = "responded"
    /\ q_sink[1] = 2
    /\ q_read[1] = Some(append_header(DefaultResponseParts, "set-cookie", "v2"))

(***************************************************************************)
(* leptos_config: get_configuration(None) reads the LEPTOS_* variables of  *)
(* the process (LeptosOptions::try_from_env); the render handler is then   *)
(* made with LeptosOptions and builds the head of the shell.               *)
(***************************************************************************)
\* std::env::var(key): Ok(val), Err(NotPresent) or Err(NotUnicode)
Unset == [st |-> "unset", val |-> ""]
NotUnicode == [st |-> "not_unicode", val |-> ""]
Set(v) == [st |-> "set", val |-> v]
VarIsOk(var) == var.st = "set"

\* the environments of the process
ProcessEnvs ==
    [ LEPTOS_OUTPUT_NAME  : {Unset, Set("app"), NotUnicode},
      LEPTOS_SITE_ROOT    : {Unset, Set("site")},
      LEPTOS_SITE_PKG_DIR : {Unset, Set("assets")},
      LEPTOS_ENV          : {Unset, Set("prod"), Set("production"), Set("dev")},
      LEPTOS_SITE_ADDR    : {Unset, Set("0.0.0.0:8080"), Set("localhost")},
      LEPTOS_RELOAD_PORT  : {Unset, Set("4001"), Set("port")},
      LEPTOS_WATCH        : {Unset, Set("ON"), NotUnicode} ]

\* str::parse::<SocketAddr>() and str::parse::<u32>() on the strings above
ParseSocketAddr(str) ==
    CASE str = "127.0.0.1:3000" -> Ok([ip |-> "127.0.0.1", port |-> 3000])
      [] str = "0.0.0.0:8080"   -> Ok([ip |-> "0.0.0.0", port |-> 8080])
      [] OTHER                  -> Err
ParseU32(str) ==
    CASE str = "3001" -> Ok(3001)
      [] str = "4001" -> Ok(4001)
      [] OTHER        -> Err

\* env_w_default(key, default)
env_w_default(var, default) ==
    CASE var.st = "set"   -> Ok(var.val)
      [] var.st = "unset" -> Ok(default)
      [] OTHER            -> Err

\* impl Default for Env
EnvDefault == "DEV"

\* LeptosOptions::try_from_env(): each `?` returns the first error
try_from_env(env) ==
    LET output_name  == IF VarIsOk(env.LEPTOS_OUTPUT_NAME)
                        THEN Ok(env.LEPTOS_OUTPUT_NAME.val) ELSE Err
        site_root    == env_w_default(env.LEPTOS_SITE_ROOT, "target/site")
        site_pkg_dir == env_w_default(env.LEPTOS_SITE_PKG_DIR, "pkg")
        addr_str     == env_w_default(env.LEPTOS_SITE_ADDR, "127.0.0.1:3000")
        site_address == IF addr_str.ok THEN ParseSocketAddr(addr_str.val) ELSE Err
        port_str     == env_w_default(env.LEPTOS_RELOAD_PORT, "3001")
        reload_port  == IF port_str.ok THEN ParseU32(port_str.val) ELSE Err
    IN  IF /\ output_name.ok
           /\ site_root.ok
           /\ site_pkg_dir.ok
           /\ site_address.ok
           /\ reload_port.ok
        THEN Ok([ output_name  |-> output_name.val,
                  site_root    |-> site_root.val,
                  site_pkg_dir |-> site_pkg_dir.val,
                  env          |-> EnvDefault,
                  site_address |-> site_address.val,
                  reload_port  |-> reload_port.val ])
        ELSE Err

\* get_configuration(None)
get_configuration_none(env) == try_from_env(env)

\* LeptosOptions::builder().output_name(..).build(): the builder's defaults
BuilderOptions ==
    [ output_name  |-> "app",
      site_root    |-> ".",
      site_pkg_dir |-> "pkg",
      env          |-> "DEV",
      site_address |-> [ip |-> "127.0.0.1", port |-> 3000],
      reload_port  |-> 3001 ]

\* an error of the kind LeptosConfigError names
ErrOf(kind) == [ok |-> FALSE, val |-> kind]

\* the error try_from_env returns: that of the first `?` that fails
try_from_env_error(env) ==
    LET addr_str == env_w_default(env.LEPTOS_SITE_ADDR, "127.0.0.1:3000")
        port_str == env_w_default(env.LEPTOS_RELOAD_PORT, "3001")
    IN  CASE ~VarIsOk(env.LEPTOS_OUTPUT_NAME)                      -> "EnvVarError"
          [] ~env_w_default(env.LEPTOS_SITE_ROOT, "target/site").ok -> "EnvVarError"
          [] ~env_w_default(env.LEPTOS_SITE_PKG_DIR, "pkg").ok      -> "EnvVarError"
          [] ~addr_str.ok                                          -> "EnvVarError"
          [] ~ParseSocketAddr(addr_str.val).ok                     -> "AddrParseError"
          [] ~port_str.ok                                          -> "EnvVarError"
          [] OTHER                                                 -> "ParseIntError"

\* A line of the manifest is a sequence of tokens; the tokens of one
\* character are those of Chars.
Chars == {".", "-", " ", "="}
SectionHeader == <<"[package", ".", "metadata", ".", "leptos]">>
ManifestLines ==
    { SectionHeader,
      <<"[package", "-", "metadata", "-", "leptos]">>,
      <<" ">> \o SectionHeader,
      <<"[package]">>,
      <<"output-name", "=", "app">> }
\* fs::read_to_string(path): Err, or the text of the file
Unreadable == [readable |-> FALSE, lines |-> <<>>]
Readable(ls) == [readable |-> TRUE, lines |-> ls]
Manifests ==
    {Unreadable} \cup
    {Readable(ls) : ls \in UNION {[1..n -> ManifestLines] : n \in 0..MaxLines}}

\* the line starts with the text `[package.metadata.leptos]`
StartsWithSectionHeader(line) ==
    /\ Len(line) >= Len(SectionHeader)
    /\ SubSeq(line, 1, Len(SectionHeader)) = SectionHeader
\* a variant of the pattern in which each dot stands for itself
section_pattern_literal(line) == StartsWithSectionHeader(line)
\* Regex (?m)^\[package.metadata.leptos\] at the start of a line: a dot of
\* the pattern matches any one character
section_pattern(line) ==
    /\ Len(line) >= 5
    /\ line[1] = "[package"
    /\ line[2] \in Chars
    /\ line[3] = "metadata"
    /\ line[4] \in Chars
    /\ line[5] = "leptos]"
\* re.find(&text): the first line the pattern matches
re_find(ls) ==
    LET hits == {i \in DOMAIN ls : section_pattern(ls[i])}
    IN  IF hits = {} THEN None
        ELSE Some(CHOOSE i \in hits : \A j \in hits : i <= j)

\* what Config::builder()..build()?.try_deserialize() makes of the section
\* and the LEPTOS_* variables: options, or an error
FileOptions == [BuilderOptions EXCEPT !.site_root = "target/site"]
ConfigOutcomes == {Ok(FileOptions), ErrOf("ConfigError")}

\* get_configuration(path), `built` being the outcome of the Config builder
get_configuration(path, file, env, built) ==
    IF path # None
    THEN CASE ~file.readable              -> ErrOf("ConfigNotFound")
           [] re_find(file.lines) = None  -> ErrOf("ConfigSectionNotFound")
           [] OTHER                       -> built
    ELSE IF get_configuration_none(env).ok
         THEN get_configuration_none(env)
         ELSE ErrOf(try_from_env_error(env))

\* the live-reload script of the head, for LEPTOS_WATCH
leptos_autoreload(options, env) ==
    IF VarIsOk(env.LEPTOS_WATCH)
    THEN Some([ws_ip |-> options.site_address.ip, ws_port |-> options.reload_port])
    ELSE None

\* the name of the wasm file, for LEPTOS_OUTPUT_NAME
wasm_output_name(options, env) ==
    IF VarIsOk(env.LEPTOS_OUTPUT_NAME)
    THEN <<options.output_name>>
    ELSE <<options.output_name, "_bg">>

\* let head = format!(..)
shell_head(options, env) ==
    [ modulepreload |-> <<options.site_pkg_dir, options.output_name>>,
      preload_wasm  |-> <<options.site_pkg_dir, wasm_output_name(options, env)>>,
      autoreload    |-> leptos_autoreload(options, env) ]

\* the environments of a process that reads its options from a manifest
ManifestEnvs == {e \in ProcessEnvs : \A k \in DOMAIN e : e[k] = Unset}

CInit ==
    /\ c_pc = "start"
    /\ \/ /\ c_path = None
          /\ c_file = Unreadable
          /\ c_env \in ProcessEnvs
       \/ /\ c_path = Some("Cargo.toml")
          /\ c_file \in Manifests
          /\ c_env \in ManifestEnvs
    /\ c_conf = None
    /\ c_options = None
    /\ c_head = None

\* the application calls get_configuration(path).await
CGetConfiguration ==
    /\ c_pc = "start"
    /\ \E built \in ConfigOutcomes :
        c_conf' = Some(get_configuration(c_path, c_file, c_env, built))
    /\ c_pc' = "configured"
    /\ UNCHANGED <<c_env, c_path, c_file, c_options, c_head>>

\* the application makes the render handler with the options it was given,
\* or with options of its own making, in either environment
CMakeHandler ==
    /\ c_pc = "configured"
    /\ \E e \in {"PROD", "DEV"} :
        \E base \in {BuilderOptions} \cup {r.val : r \in {x \in c_conf : x.ok}} :
            c_options' = Some([base EXCEPT !.env = e])
    /\ c_pc' = "handler"
    /\ UNCHANGED <<c_env, c_path, c_file, c_conf, c_head>>

\* a request is rendered: the head of the shell is formatted
CShellHead ==
    /\ c_pc = "handler"
    /\ c_head' = Some(shell_head(Unwrap(c_options), c_env))
    /\ c_pc' = "head"
    /\ UNCHANGED <<c_env, c_path, c_file, c_conf, c_options>>

CNext ==
    /\ \/ CGetConfiguration
       \/ CMakeHandler
       \/ CShellHead
    /\ UNCHANGED <<dvars, rvars, svars, qvars, gvars, tvars, mvars, lvars, evars>>

\* a process starts with its environment
InitConfig == DIdle /\ RInit /\ SIdle /\ QIdle /\ GIdle /\ TIdle /\ CInit /\ MIdle /\ LIdle /\ EIdle

SpecConfig == InitConfig /\ [][CNext]_vars

(***************************************************************************)
(* C22, as claimed.  When the LeptosOptions given to the render handler    *)
(* have env PROD, the head of the shell holds no live-reload WebSocket     *)
(* script, whatever variables the environment of the process holds.        *)
(***************************************************************************)
C22_ProdHasNoLiveReload ==
    \A options \in c_options : \A head \in c_head :
        options.env = "PROD" => head.autoreload = None

\* impl FromStr for Env, on the values of LEPTOS_ENV above
EnvFromStr(str) == IF str \in {"prod", "production"} THEN "PROD" ELSE "DEV"
\* the value an option takes from its variable, or its default when unset
FromVarOr(var, default) == IF var.st = "set" THEN var.val ELSE default

(***************************************************************************)
(* C23, as claimed.  The options get_configuration(None) returns take      *)
(* every option from its LEPTOS_* variable when that variable is set and   *)
(* from the default otherwise; in particular env is PROD when LEPTOS_ENV   *)
(* is `prod` or `production`.                                              *)
(***************************************************************************)
C23_OptionsFromEnvironment ==
    \A conf \in c_conf :
        (c_path = None /\ conf.ok) =>
            /\ conf.val.output_name = c_env.LEPTOS_OUTPUT_NAME.val
            /\ conf.val.site_root = FromVarOr(c_env.LEPTOS_SITE_ROOT, "target/site")
            /\ conf.val.site_pkg_dir = FromVarOr(c_env.LEPTOS_SITE_PKG_DIR, "pkg")
            /\ Ok(conf.val.site_address) =
                ParseSocketAddr(FromVarOr(c_env.LEPTOS_SITE_ADDR, "127.0.0.1:3000"))
            /\ Ok(conf.val.reload_port) =
                ParseU32(FromVarOr(c_env.LEPTOS_RELOAD_PORT, "3001"))
            /\ conf.val.env = EnvFromStr(FromVarOr(c_env.LEPTOS_ENV, "dev"))

\* the defaults of the variables try_from_env reads with env_w_default
EnvDefaults ==
    [ LEPTOS_SITE_ROOT    |-> "target/site",
      LEPTOS_SITE_PKG_DIR |-> "pkg",
      LEPTOS_SITE_ADDR    |-> "127.0.0.1:3000",
      LEPTOS_RELOAD_PORT  |-> "3001" ]
\* the text an option of the returned LeptosOptions was read from
OptionRead(options, k) ==
    CASE k = "LEPTOS_SITE_ROOT"    -> Ok(options.site_root)
      [] k = "LEPTOS_SITE_PKG_DIR" -> Ok(options.site_pkg_dir)
      [] k = "LEPTOS_SITE_ADDR"    -> Ok(options.site_address)
      [] k = "LEPTOS_RELOAD_PORT"  -> Ok(options.reload_port)
OptionParse(k, str) ==
    CASE k = "LEPTOS_SITE_ADDR"   -> ParseSocketAddr(str)
      [] k = "LEPTOS_RELOAD_PORT" -> ParseU32(str)
      [] OTHER                    -> Ok(str)

(***************************************************************************)
(* C31, as claimed.  get_configuration maps each failure to its own error: *)
(* a path that cannot be read gives ConfigNotFound; a readable file with   *)
(* no line starting with `[package.metadata.leptos]` gives                 *)
(* ConfigSectionNotFound; with path None, an unset LEPTOS_OUTPUT_NAME      *)
(* gives EnvVarError, and every other unset variable falls back to its     *)
(* default.                                                                *)
(***************************************************************************)
C31_EachFailureItsOwnError ==
    \A conf \in c_conf :
        /\ (c_path # None /\ ~c_file.readable) => conf = ErrOf("ConfigNotFound")
        /\ ( /\ c_path # None
             /\ c_file.readable
             /\ \A i \in DOMAIN c_file.lines :
                    ~StartsWithSectionHeader(c_file.lines[i]) )
            => conf = ErrOf("ConfigSectionNotFound")
        /\ (c_path = None /\ c_env.LEPTOS_OUTPUT_NAME = Unset)
            => conf = ErrOf("EnvVarError")
        /\ (c_path = None /\ conf.ok) =>
            \A k \in DOMAIN EnvDefaults :
                c_env[k] = Unset =>
                    OptionRead(conf.val, k) = OptionParse(k, EnvDefaults[k])

\* the calling side, or the HTTP layer after it, has been given the shell tail
TailReceived ==
    \/ \E i \in DOMAIN pulled : pulled[i] = Some(TailChunk)
    \/ \E i \in DOMAIN delivered : delivered[i] = TailChunk
\* the worker has copied the accumulated ResponseParts into the result sink
CopiedBack == wpc \in {"copied", "disposed", "done"}

(***************************************************************************)
(* C24.  After the fragment stream ends the worker copies the accumulated  *)
(* ResponseParts into the result sink, then disposes the scope, then       *)
(* closes the channel: the scope is disposed only after the copy, the      *)
(* channel closed only after the disposal, and the shell tail is received  *)
(* only after both.                                                        *)
(***************************************************************************)
C24_CopyDisposeClose ==
    /\ rscope = "disposed" => CopiedBack
    /\ tx_closed => rscope = "disposed"
    /\ TailReceived => (CopiedBack /\ rscope = "disposed" /\ tx_closed)

\* the tail was among the three chunks pulled eagerly
C24_Witness ==
    /\ Len(pulled) = EagerPulls
    /\ pulled[EagerPulls] = Some(TailChunk)
    /\ emitted = 1
    /\ rscope = "disposed"
    /\ tx_closed
    /\ rwrites > 0

(***************************************************************************)
(* C25.  The fragments buffered in the channel never exceed the bound its  *)
(* capacity sets, the buffer of 8 and one slot for its one sender; when    *)
(* the channel is full the worker is suspended in its send, having taken   *)
(* no fragment from the view engine after the one it queued last, until    *)
(* the receiver removes one.                                               *)
(***************************************************************************)
C25_ChannelBounded ==
    /\ Len(chan) <= ChanBuffer + 1
    /\ Len(chan) > ChanBuffer => parked
    /\ parked =>
        /\ wpc = "flush"
        /\ chan # <<>>
        /\ chan[Len(chan)] = Frag(emitted)

\* the channel is full and the worker suspended, the caller having taken
\* the head alone
C25_Witness ==
    /\ Len(chan) = ChanBuffer + 1
    /\ parked
    /\ wpc = "flush"
    /\ emitted = ChanBuffer + 1
    /\ pulled = <<Some(HeadChunk)>>

\* no chunk occurs twice in b
NoRepeat(b) == \A i, j \in DOMAIN b : b[i] = b[j] => i = j

(***************************************************************************)
(* C26.  The render handler builds the response only after it has pulled   *)
(* exactly three chunks from the assembled stream; the body of the         *)
(* response starts with those three chunks in the order pulled, followed   *)
(* by the chunks not yet pulled; no chunk is pulled twice, none skipped.   *)
(***************************************************************************)
C26_ThreeChunksThenResponse ==
    /\ response = None => (delivered = <<>> /\ body = <<>>)
    /\ response # None =>
        /\ Len(pulled) = EagerPulls
        /\ \A i \in DOMAIN pulled : IsSome(pulled[i])
        /\ \A i \in DOMAIN pulled : (delivered \o body)[i] = Unwrap(pulled[i])
        /\ NoRepeat(delivered \o body)
        /\ \A i \in DOMAIN delivered :
            delivered[i] = ExpectedBody[i]

\* the HTTP layer has read the three chunks and two of the chunks after them
C26_Witness ==
    /\ response # None
    /\ body = <<>>
    /\ Len(delivered) = EagerPulls + 2
    /\ pulled = <<Some(HeadChunk), Some(Frag(1)), Some(Frag(2))>>
    /\ delivered[EagerPulls + 1] = Frag(EagerPulls)

(***************************************************************************)
(* C27.  On a registry hit the dispatcher creates the scope, runs the      *)
(* context-injection callback, injects the RequestSnapshot, injects a new  *)
(* Response Sink and only then invokes the handler: nothing is in the      *)
(* scope before the callback runs, and when the handler is invoked the     *)
(* scope is live and holds the snapshot of this request and a sink with    *)
(* no status and no headers, whatever the callback injected.               *)
(***************************************************************************)
C27_HandlerFindsFreshContext ==
    /\ dpc = "additional_context" => (scope = "live" /\ ctx = EmptyContext)
    /\ (dpc = "handler" /\ dwrites = 0) =>
        /\ scope = "live"
        /\ use_context(ctx, "RequestParts") = Some(RequestSnapshot(req_path, headers))
        /\ use_context(ctx, "ResponseOptions") = Some("request_sink")
        /\ dsink = DefaultResponseParts

\* the handler is invoked after a callback that had injected a snapshot and
\* a sink of its own
C27_Witness ==
    /\ dpc = "handler"
    /\ dwrites = 0
    /\ use_context(ctx, "AppState") = Some("state")
    /\ req_path = <<"/", "f">>
    /\ headers.accept # None

\* the dispatcher has looked the name up and found a handler
LookupHit ==
    \/ dpc = "create_scope"
    \/ (dpc \notin {"start", "lookup"} /\ scope # "none")

(***************************************************************************)
(* C28.  The normalization of the function path removes exactly one        *)
(* leading "/" when the path starts with one and leaves the path unchanged *)
(* otherwise, so a path starting with two slashes keeps its second slash;  *)
(* the registry is looked up with the normalized name by exact match.      *)
(***************************************************************************)
C28_OneLeadingSlashStripped ==
    dpc # "start" =>
        /\ (req_path # <<>> /\ req_path[1] = "/") =>
            /\ Len(fn_name) = Len(req_path) - 1
            /\ \A i \in DOMAIN fn_name : fn_name[i] = req_path[i + 1]
        /\ ~(req_path # <<>> /\ req_path[1] = "/") => fn_name = req_path
        /\ dpc # "lookup" => (LookupHit <=> fn_name \in Registered)

\* "//f" keeps its second slash and finds no handler, though "f" is registered
C28_Witness ==
    /\ dpc = "returned"
    /\ req_path = <<"/", "/", "f">>
    /\ fn_name = <<"/", "f">>
    /\ scope = "none"
    /\ <<"f">> \in Registered

(***************************************************************************)
(* C29.  On handler success the dispatcher disposes the scope before it    *)
(* reads the Response Sink, and what the handler wrote still reaches the   *)
(* response: every name the sink holds is in the success response with     *)
(* all of its values, in their order, before any value the dispatcher      *)
(* adds itself.                                                            *)
(***************************************************************************)
C29_SinkSurvivesDisposal ==
    /\ dpc = "respond" => scope = "disposed"
    /\ (Dispatched /\ HandlerSucceeded) =>
        /\ scope = "disposed"
        /\ \A n \in HeaderNames : IsPrefix(dsink.headers[n], Handed.headers[n])

\* the handler left two values of one name and one of another in the sink
C29_Witness ==
    /\ Dispatched
    /\ HandlerSucceeded
    /\ scope = "disposed"
    /\ dsink.headers["set-cookie"] = <<"v1", "v2">>
    /\ Handed.headers["set-cookie"] = <<"v1", "v2">>
    /\ Handed.status = StatusOK

(***************************************************************************)
(* C30.  For every server-function request whose handler does not panic,   *)
(* registered or not, succeeding or failing, the worker sends exactly one  *)
(* response on the completion channel and the calling side eventually      *)
(* returns that response; the calling side never returns before the        *)
(* worker has produced it.                                                 *)
(***************************************************************************)
C30_OneResponseReturned ==
    /\ [](Len(oneshot) <= 1)
    /\ [](dpc = "sent" => oneshot = <<Unwrap(res)>>)
    /\ [](IsSome(returned) => (res = returned /\ oneshot = <<Unwrap(returned)>>))
    /\ ([](dpc # "panicked")) => <>(IsSome(returned))

\* the response of a failed handler came back through the channel
C30_Witness ==
    /\ dpc = "returned"
    /\ HandlerFailed
    /\ oneshot = <<Unwrap(returned)>>
    /\ Unwrap(returned).status = StatusInternalServerError
    /\ dwrites > 0

(***************************************************************************)
(* leptos_macro: view! takes the context identifier and a comma from the   *)
(* front of its tokens, looks at the next four tokens for a global class,  *)
(* and hands the rest to the parser.                                       *)
(***************************************************************************)
Ident(text) == [kind |-> "Ident", text |-> text]
Punct(char) == [kind |-> "Punct", text |-> char]
RsxTokens == {Ident("class"), Ident("id"), Punct("="), Punct(",")}
\* how an invocation begins: with `cx,` or with something else
ViewHeads ==
    { <<Ident("cx"), Punct(",")>>,
      <<Ident("cx"), Punct("=")>>,
      <<Punct(","), Punct(",")>>,
      <<Ident("cx")>>,
      <<>> }
ViewInputs ==
    { head \o rest :
        head \in ViewHeads,
        rest \in UNION {[1..n -> RsxTokens] : n \in 0..MaxTokens} }

\* Iterator::next(): the item returned and the iterator after it
next_item(iter) == IF iter = <<>> THEN None ELSE Some(Head(iter))
next_rest(iter) == IF iter = <<>> THEN <<>> ELSE Tail(iter)

\* the match on (&first, &second, &third, &fourth)
global_class(four) ==
    IF /\ \A i \in 1..4 : four[i] # None
       /\ Unwrap(four[1]) = Ident("class")
       /\ Unwrap(four[2]) = Punct("=")
       /\ Unwrap(four[4]) = Punct(",")
    THEN four[3]
    ELSE None

\* [first, second, third, fourth].into_iter().flatten()
RECURSIVE flatten(_)
flatten(opts) ==
    IF opts = <<>> THEN <<>>
    ELSE IF Head(opts) = None THEN flatten(Tail(opts))
         ELSE <<Unwrap(Head(opts))>> \o flatten(Tail(opts))

\* a variant that never hands the four tokens back
rsx_tokens_dropping_four(class, four, iter) == iter
\* let tokens = if global_class.is_some() { .. } else { .. }
rsx_tokens(class, four, iter) ==
    IF IsSome(class) THEN iter ELSE flatten(four) \o iter

MInit ==
    view_macro \in { [pc |-> "start", input |-> i, iter |-> i, cx |-> None,
                      four |-> <<>>, class |-> None, parsed |-> None] : i \in ViewInputs }

\* let (cx, comma) = (tokens.next(), tokens.next()), and the outer match
MTakeHead ==
    /\ m_pc = "start"
    /\ LET cx    == next_item(m_iter)
           comma == next_item(next_rest(m_iter))
           rest  == next_rest(next_rest(m_iter))
       IN  IF /\ cx # None
              /\ Unwrap(cx).kind = "Ident"
              /\ comma = Some(Punct(","))
           THEN view_macro' = [view_macro EXCEPT !.iter = rest, !.pc = "head", !.cx = cx]
           ELSE view_macro' = [view_macro EXCEPT !.iter = rest, !.pc = "panicked", !.cx = None]

\* let first = tokens.next(); .. let fourth = tokens.next();
MTakeFour ==
    /\ m_pc = "head"
    /\ LET i1 == m_iter
           i2 == next_rest(i1)
           i3 == next_rest(i2)
           i4 == next_rest(i3)
       IN  view_macro' = [view_macro EXCEPT
               !.four = <<next_item(i1), next_item(i2), next_item(i3), next_item(i4)>>,
               !.iter = next_rest(i4),
               !.pc = "four"]

\* let global_class = match ..
MGlobalClass ==
    /\ m_pc = "four"
    /\ view_macro' = [view_macro EXCEPT !.class = Some(global_class(m_four)), !.pc = "matched"]

\* parse(tokens.into())
MParse ==
    /\ m_pc = "matched"
    /\ view_macro' = [view_macro EXCEPT
           !.parsed = Some(rsx_tokens(Unwrap(m_class), m_four, m_iter)),
           !.iter = <<>>,
           !.pc = "parsing"]

MNext ==
    /\ \/ MTakeHead
       \/ MTakeFour
       \/ MGlobalClass
       \/ MParse
    /\ UNCHANGED <<dvars, rvars, svars, qvars, gvars, tvars, cvars, lvars, evars>>

\* one invocation of view! is expanded
InitMacro == DIdle /\ RInit /\ SIdle /\ QIdle /\ GIdle /\ TIdle /\ CIdle /\ MInit /\ LIdle /\ EIdle

SpecMacro == InitMacro /\ [][MNext]_vars

\* the tokens that follow `cx,` in the invocation
AfterHead == SubSeq(m_input, 3, Len(m_input))
\* they begin with `class = <value> ,`
ClassArgument ==
    /\ Len(AfterHead) >= 4
    /\ AfterHead[1] = Ident("class")
    /\ AfterHead[2] = Punct("=")
    /\ AfterHead[4] = Punct(",")

(***************************************************************************)
(* C32.  The parser is handed the tokens that follow `cx,` unchanged and   *)
(* in their order when the next four tokens are not `class = <value> ,`;   *)
(* when they are, exactly those four are removed, the value becomes the    *)
(* global class, and the remaining tokens are passed in their order.       *)
(***************************************************************************)
C32_ParserGetsTokensInOrder ==
    \A parsed \in m_parsed :
        IF ClassArgument
        THEN /\ parsed = SubSeq(AfterHead, 5, Len(AfterHead))
             /\ m_class = Some(Some(AfterHead[3]))
        ELSE /\ parsed = AfterHead
             /\ m_class = Some(None)

\* `cx, class = id, class =`: the class is taken, two tokens in order remain
C32_Witness ==
    /\ m_pc = "parsing"
    /\ m_input = <<Ident("cx"), Punct(","), Ident("class"), Punct("="), Ident("id"),
                   Punct(","), Ident("class"), Punct("=")>>
    /\ m_class = Some(Some(Ident("id")))
    /\ m_parsed = Some(<<Ident("class"), Punct("=")>>)

\* `cx, class = id`: three tokens only, handed to the parser as they are
C32_WitnessNoClass ==
    /\ m_pc = "parsing"
    /\ m_input = <<Ident("cx"), Punct(","), Ident("class"), Punct("="), Ident("id")>>
    /\ m_four[4] = None
    /\ m_parsed = Some(<<Ident("class"), Punct("="), Ident("id")>>)

(***************************************************************************)
(* C33, as claimed.  The render handler returns a response for every       *)
(* render, also when the view engine emits no fragment or one fragment:    *)
(* once the three chunks are pulled the response can be built, and the     *)
(* calling side never panics.                                              *)
(***************************************************************************)
C33_RenderAlwaysResponds ==
    /\ cpc # "panicked"
    /\ (cpc = "pull" /\ eager_pull_done(pulled)) => ENABLED RRespond

(***************************************************************************)
(* The lock of the Response Sink in one render.  default_res_options,      *)
(* res_options2 and res_options3 are clones of one Arc<RwLock<..>>: the    *)
(* components, the worker's copy-back and the calling side's read all take *)
(* the same lock.  The worker's main task and the component's task run on  *)
(* the worker thread, one at a time until the running one awaits something *)
(* that is not ready; the calling side runs on a thread of its own.  The   *)
(* lock grants its requests first come first.                              *)
(***************************************************************************)
LockRequest(who, mode) == [who |-> who, mode |-> mode]
\* the request at the head of the queue can be granted
Grantable ==
    /\ l_queue # <<>>
    /\ l_writer = None
    /\ (Head(l_queue).mode = "write" => l_readers = {})
Waiting(who) == \E i \in DOMAIN l_queue : l_queue[i].who = who
\* the state of a task whose request has been granted
HoldOf(pc) ==
    CASE pc = "read_wait"   -> "read_hold"
      [] pc = "write_wait"  -> "write_hold"
      [] pc = "status_wait" -> "status_hold"
      [] pc = "header_wait" -> "header_hold"
      [] OTHER              -> pc
\* the worker thread is free to run the task
CanRun(task) == l_run \in {"none", task}

LInit ==
    sink_lock = [pc       |-> [caller |-> "pull", main |-> "spawned", comp |-> "idle"],
                 run      |-> "none",
                 ops      |-> 0,
                 emitted  |-> 0,
                 chan     |-> 0,
                 closed   |-> FALSE,
                 pos      |-> "head",
                 pulled   |-> <<>>,
                 readers  |-> {},
                 writer   |-> None,
                 queue    |-> <<>>,
                 sink     |-> DefaultResponseParts,
                 copy     |-> None,
                 response |-> None]

\* RwLock: the request at the head of the queue is given its guard
LGrant ==
    /\ Grantable
    /\ LET r == Head(l_queue)
       IN  sink_lock' = [sink_lock EXCEPT
               !.queue = Tail(l_queue),
               !.readers = IF r.mode = "read" THEN l_readers \cup {r.who} ELSE l_readers,
               !.writer = IF r.mode = "write" THEN Some(r.who) ELSE l_writer,
               !.pc = [l_pc EXCEPT ![r.who] = HoldOf(@)]]

\* the running task awaits a guard it is not given yet: the thread is free
LBlock ==
    /\ l_run # "none"
    /\ Waiting(l_run)
    /\ ~(Grantable /\ Head(l_queue).who = l_run)
    /\ sink_lock' = [sink_lock EXCEPT !.run = "none"]

\* the running task awaits something else that is not ready (the next
\* fragment, a resource): the thread is free
LYield ==
    /\ \/ l_run = "main" /\ l_pc.main = "rendering"
       \/ l_run = "comp" /\ l_pc.comp = "idle"
    /\ sink_lock' = [sink_lock EXCEPT !.run = "none"]

\* ---- the worker's main task ----
LWorkerStart ==
    /\ l_pc.main = "spawned"
    /\ CanRun("main")
    /\ sink_lock' = [sink_lock EXCEPT
           !.pc = [l_pc EXCEPT !.main = "rendering"],
           !.run = "main"]

\* while let Some(fragment) = shell.next().await { _ = tx.send(fragment).await }
LEmit ==
    /\ l_pc.main = "rendering"
    /\ CanRun("main")
    /\ l_emitted < MaxFrags
    /\ sink_lock' = [sink_lock EXCEPT
           !.emitted = l_emitted + 1,
           !.chan = l_chan + 1,
           !.run = "main"]

\* the stream has ended: res_options.0.read().await
LStreamEnd ==
    /\ l_pc.main = "rendering"
    /\ CanRun("main")
    /\ sink_lock' = [sink_lock EXCEPT
           !.queue = Append(l_queue, LockRequest("main", "read")),
           !.pc = [l_pc EXCEPT !.main = "read_wait"],
           !.run = "main"]

\* a variant of the step below: the read guard is kept while the write guard
\* is awaited
LClone_keeping_guard ==
    /\ l_pc.main = "read_hold"
    /\ CanRun("main")
    /\ sink_lock' = [sink_lock EXCEPT
           !.copy = Some(l_sink),
           !.queue = Append(l_queue, LockRequest("main", "write")),
           !.pc = [l_pc EXCEPT !.main = "write_wait"],
           !.run = "main"]

\* .clone(), the read guard dropped with the statement; res_options2.0.write().await
LClone ==
    /\ l_pc.main = "read_hold"
    /\ CanRun("main")
    /\ sink_lock' = [sink_lock EXCEPT
           !.copy = Some(l_sink),
           !.readers = l_readers \ {"main"},
           !.queue = Append(l_queue, LockRequest("main", "write")),
           !.pc = [l_pc EXCEPT !.main = "write_wait"],
           !.run = "main"]

\* *writable = new_res_parts; runtime.dispose(); tx.close_channel(); the
\* write guard is dropped as the task ends
LWriteBack ==
    /\ l_pc.main = "write_hold"
    /\ CanRun("main")
    /\ sink_lock' = [sink_lock EXCEPT
           !.sink = Unwrap(l_copy),
           !.writer = None,
           !.closed = TRUE,
           !.pc = [l_pc EXCEPT !.main = "done"],
           !.run = "none"]

\* ---- a component, while the view is rendered ----
\* redirect(cx, path): set_status(StatusCode::FOUND) awaits the write guard
LRedirect ==
    /\ l_pc.comp = "idle"
    /\ l_pc.main = "rendering"
    /\ CanRun("comp")
    /\ l_ops < MaxRenderWrites
    /\ sink_lock' = [sink_lock EXCEPT
           !.ops = l_ops + 1,
           !.queue = Append(l_queue, LockRequest("comp", "write")),
           !.pc = [l_pc EXCEPT !.comp = "status_wait"],
           !.run = "comp"]

\* set_status writes and drops its guard; insert_header awaits a guard of its own
LSetStatus ==
    /\ l_pc.comp = "status_hold"
    /\ l_pc.main # "done"
    /\ CanRun("comp")
    /\ sink_lock' = [sink_lock EXCEPT
           !.sink = set_status(l_sink, StatusFound),
           !.writer = None,
           !.queue = Append(l_queue, LockRequest("comp", "write")),
           !.pc = [l_pc EXCEPT !.comp = "header_wait"],
           !.run = "comp"]

\* insert_header(LOCATION, path) writes and drops its guard
LInsertLocation ==
    /\ l_pc.comp = "header_hold"
    /\ l_pc.main # "done"
    /\ CanRun("comp")
    /\ \E path \in RedirectPaths :
           sink_lock' = [sink_lock EXCEPT
               !.sink = insert_header(l_sink, "location", path),
               !.writer = None,
               !.pc = [l_pc EXCEPT !.comp = "idle"],
               !.run = "comp"]

\* ---- the calling side ----
\* stream.next().await, thrice: the head, the fragments, the tail, then None
LPull ==
    /\ l_pc.caller = "pull"
    /\ Len(l_pulled) < EagerPulls
    /\ l_pos # "rx" \/ l_chan > 0 \/ l_closed
    /\ sink_lock' = [sink_lock EXCEPT
           !.pulled = Append(l_pulled, l_pos # "end"),
           !.pos = CASE l_pos = "head"             -> "rx"
                     [] l_pos = "rx" /\ l_chan > 0 -> "rx"
                     [] OTHER                       -> "end",
           !.chan = IF l_pos = "rx" /\ l_chan > 0 THEN l_chan - 1 ELSE l_chan]

\* let res_options = res_options3.0.read().await
LReadRequest ==
    /\ l_pc.caller = "pull"
    /\ Len(l_pulled) = EagerPulls
    /\ sink_lock' = [sink_lock EXCEPT
           !.queue = Append(l_queue, LockRequest("caller", "read")),
           !.pc = [l_pc EXCEPT !.caller = "read_wait"]]

\* the response is built under the read guard, which is dropped on return
LRespond ==
    /\ l_pc.caller = "read_hold"
    /\ \A i \in DOMAIN l_pulled : l_pulled[i]
    /\ sink_lock' = [sink_lock EXCEPT
           !.response = Some(render_response(l_sink)),
           !.readers = l_readers \ {"caller"},
           !.pc = [l_pc EXCEPT !.caller = "returned"]]

\* a chunk is None: unwrap() panics, and the unwinding drops the read guard
LUnwrapPanic ==
    /\ l_pc.caller = "read_hold"
    /\ \E i \in DOMAIN l_pulled : ~l_pulled[i]
    /\ sink_lock' = [sink_lock EXCEPT
           !.readers = l_readers \ {"caller"},
           !.pc = [l_pc EXCEPT !.caller = "panicked"]]

\* what a step of the render leaves alone
LFrame == UNCHANGED <<dvars, rvars, svars, qvars, gvars, tvars, cvars, mvars, evars>>

LLockNext == LGrant /\ LFrame
LWorkerThreadNext ==
    /\ \/ LBlock
       \/ LYield
       \/ LWorkerStart
       \/ LEmit
       \/ LStreamEnd
       \/ LClone
       \/ LWriteBack
       \/ LRedirect
       \/ LSetStatus
       \/ LInsertLocation
    /\ LFrame
LCallerNext ==
    /\ \/ LPull
       \/ LReadRequest
       \/ LRespond
       \/ LUnwrapPanic
    /\ LFrame

LNext ==
    \/ LLockNext
    \/ LWorkerThreadNext
    \/ LCallerNext

\* a page request is rendered
InitLock == DIdle /\ RInit /\ SIdle /\ QIdle /\ GIdle /\ TIdle /\ CIdle /\ MIdle /\ LInit /\ EIdle

\* the worker thread and the calling side both run whenever they can, and
\* the lock hands a free guard to the first request
SpecRenderLock ==
    /\ InitLock
    /\ [][LNext]_vars
    /\ WF_vars(LLockNext)
    /\ WF_vars(LWorkerThreadNext)
    /\ WF_vars(LCallerNext)

(***************************************************************************)
(* C34.  The render never deadlocks on the lock of the Response Sink: the  *)
(* calling side's read after the eager pull, the worker's read-back and    *)
(* its final write, and every write of a component during rendering are    *)
(* each given the lock in the end, however the worker thread and the       *)
(* calling side interleave.                                                *)
(***************************************************************************)
C34_LockAlwaysGranted ==
    /\ (l_pc.caller = "read_wait") ~> (l_pc.caller = "read_hold")
    /\ (l_pc.main = "read_wait") ~> (l_pc.main = "read_hold")
    /\ (l_pc.main = "write_wait") ~> (l_pc.main = "write_hold")
    /\ (l_pc.comp = "status_wait") ~> (l_pc.comp = "status_hold")
    /\ (l_pc.comp = "header_wait") ~> (l_pc.comp = "header_hold")

\* the calling side holds its read guard; a component's header write waits
\* for it, and the worker's read-back waits behind the component
C34_Witness ==
    /\ l_pc.caller = "read_hold"
    /\ l_pc.comp = "header_wait"
    /\ l_pc.main = "read_wait"
    /\ l_queue = <<LockRequest("comp", "write"), LockRequest("main", "read")>>
    /\ l_run = "none"

(***************************************************************************)
(* C35, as claimed.  A streamed response never carries the status 302      *)
(* written by redirect() without the Location header written by the same   *)
(* call.                                                                   *)
(***************************************************************************)
C35_RedirectStatusHasLocation ==
    \A r \in l_response :
        r.status = StatusFound => r.headers["location"] # <<>>

(***************************************************************************)
(* C36.  When the handler fails, nothing it wrote to the Response Sink     *)
(* reaches the response: the 500 response has no header at all, so none    *)
(* inserted or appended through the sink, no Location and no payload       *)
(* Content-Type.                                                           *)
(***************************************************************************)
C36_FailureCarriesNoSinkWrite ==
    (IsSome(res) /\ HandlerFailed) =>
        /\ Unwrap(res).status = StatusInternalServerError
        /\ \A n \in HeaderNames : Unwrap(res).headers[n] = <<>>

\* the function set a status, wrote a cookie and a Location, and then failed
C36_Witness ==
    /\ Dispatched /\ HandlerFailed
    /\ IsSome(dsink.status)
    /\ dsink.headers["set-cookie"] # <<>>
    /\ dsink.headers["location"] # <<>>
    /\ Handed.headers = EmptyHeaders

(***************************************************************************)
(* C37.  Each operation of the Response Sink changes only its own part of  *)
(* the ResponseParts: set_status leaves every header as it was;            *)
(* insert_header and append_header leave the status and every other header *)
(* name as they were; overwrite replaces the status and all headers by     *)
(* those of its argument, so that nothing written before it remains.       *)
(***************************************************************************)
C37_EachOpChangesItsOwnPart ==
    \A o \in s_last :
        /\ o.op = "set_status" =>
            /\ s_parts.headers = s_prev.headers
            /\ s_parts.status = Some(o.s)
        /\ o.op \in {"insert_header", "append_header"} =>
            /\ s_parts.status = s_prev.status
            /\ \A n \in HeaderNames \ {o.k} :
                s_parts.headers[n] = s_prev.headers[n]
        /\ o.op = "overwrite" => s_parts = o.parts

\* an overwrite with the default parts, on a sink that held a status and the
\* values of two names
C37_Witness ==
    /\ s_last = Some([op |-> "overwrite", parts |-> DefaultResponseParts])
    /\ s_prev.status = Some(201)
    /\ s_prev.headers["set-cookie"] # <<>>
    /\ s_prev.headers["location"] # <<>>
    /\ s_parts = DefaultResponseParts

\* a set_status on a sink that held a status and two values of a name
C37_WitnessSetStatus ==
    /\ s_last = Some([op |-> "set_status", s |-> StatusSeeOther])
    /\ s_prev.status = Some(201)
    /\ s_prev.headers["set-cookie"] = <<"v1", "v2">>
    /\ s_parts.headers = s_prev.headers

(***************************************************************************)
(* C38.  Route enumeration returns as many paths as the router's           *)
(* collection pass produced (one when it produced none), in the same       *)
(* order, each path unchanged except that an empty path becomes "/".       *)
(***************************************************************************)
C38_RoutesKeepCountAndOrder ==
    \A routes \in t_result :
        /\ Len(routes) = IF t_walked = <<>> THEN 1 ELSE Len(t_walked)
        /\ \A i \in DOMAIN t_walked :
            routes[i] = IF t_walked[i] = "" THEN "/" ELSE t_walked[i]

\* three different paths, the empty one in the middle
C38_Witness ==
    /\ t_pc = "done"
    /\ t_walked = <<"/users/:id", "", "/about">>
    /\ t_result = Some(<<"/users/:id", "/", "/about">>)

(***************************************************************************)
(* leptos_config: the conversions of a string to Env.  A string is the     *)
(* sequence of its characters, so that to_lowercase is computed.           *)
(***************************************************************************)
\* char::to_lowercase on the letters of the strings below
LowerOf ==
    [ A |-> "a", C |-> "c", D |-> "d", E |-> "e", I |-> "i", L |-> "l",
      M |-> "m", N |-> "n", O |-> "o", P |-> "p", R |-> "r", S |-> "s",
      T |-> "t", U |-> "u", V |-> "v" ]
to_lowercase_char(c) == IF c \in DOMAIN LowerOf THEN LowerOf[c] ELSE c
\* a variant that leaves the string as it is
to_lowercase_skipped(str) == str
\* str::to_lowercase
to_lowercase(str) == [i \in DOMAIN str |-> to_lowercase_char(str[i])]

\* the strings the match arms compare with
StrDev == <<"d", "e", "v">>
StrDevelopment == <<"d", "e", "v", "e", "l", "o", "p", "m", "e", "n", "t">>
StrProd == <<"p", "r", "o", "d">>
StrProduction == <<"p", "r", "o", "d", "u", "c", "t", "i", "o", "n">>

\* the arms the four conversions share; None for the arm `_`
env_match(sanitized) ==
    CASE sanitized = StrDev         -> Some("DEV")
      [] sanitized = StrDevelopment -> Some("DEV")
      [] sanitized = StrProd        -> Some("PROD")
      [] sanitized = StrProduction  -> Some("PROD")
      [] OTHER                      -> None

Value(env) == [kind |-> "value", env |-> env]
Panic == [kind |-> "panic", env |-> ""]
Error == [kind |-> "error", env |-> ""]

\* impl FromStr for Env: the arm `_` gives Ok(DEV)
env_from_str(input) ==
    Value(UnwrapOr(env_match(to_lowercase(input)), "DEV"))
\* impl From<&str> for Env: the arm `_` panics
env_from(str) ==
    IF IsSome(env_match(to_lowercase(str)))
    THEN Value(Unwrap(env_match(to_lowercase(str)))) ELSE Panic
\* impl From<&Result<String, VarError>> for Env: Err(_) gives DEV
env_from_result(input) ==
    IF input.ok THEN env_from(input.val) ELSE Value("DEV")
\* impl TryFrom<String> for Env: the arm `other` gives Err
env_try_from(str) ==
    IF IsSome(env_match(to_lowercase(str)))
    THEN Value(Unwrap(env_match(to_lowercase(str)))) ELSE Error

\* the upper-case letter of a character, or the character itself
UpperOf(c) ==
    IF \E u \in DOMAIN LowerOf : LowerOf[u] = c
    THEN CHOOSE u \in DOMAIN LowerOf : LowerOf[u] = c
    ELSE c
\* a word in every mix of upper and lower case
RECURSIVE CaseVariants(_)
CaseVariants(word) ==
    IF word = <<>> THEN {<<>>}
    ELSE { <<c>> \o rest :
             c \in {Head(word), UpperOf(Head(word))},
             rest \in CaseVariants(Tail(word)) }
\* the inputs: the four names and five other strings, in every case, and the
\* two errors of std::env::var
EnvWords ==
    { StrDev, StrDevelopment, StrProd, StrProduction,
      <<>>, <<"p", "r", "o">>, <<"d", "e", "v", "s">>, <<"p", "r", "o", "d", " ">>,
      <<"t", "e", "s", "t">> }
EnvInputs ==
    {Ok(str) : str \in UNION {CaseVariants(w) : w \in EnvWords}}
        \cup {ErrOf("NotPresent"), ErrOf("NotUnicode")}

Conversions == {"FromStr", "From<&str>", "From<&Result>", "TryFrom<String>"}

EInit ==
    /\ e_input \in EnvInputs
    /\ e_out = [c \in Conversions |-> None]

\* Env::from_str(&text), text.parse::<Env>()
EFromStr ==
    /\ e_input.ok
    /\ e_out["FromStr"] = None
    /\ e_out' = [e_out EXCEPT !["FromStr"] = Some(env_from_str(e_input.val))]
    /\ UNCHANGED e_input

\* Env::from(text.as_str())
EFrom ==
    /\ e_input.ok
    /\ e_out["From<&str>"] = None
    /\ e_out' = [e_out EXCEPT !["From<&str>"] = Some(env_from(e_input.val))]
    /\ UNCHANGED e_input

\* Env::from(&std::env::var(..))
EFromResult ==
    /\ e_out["From<&Result>"] = None
    /\ e_out' = [e_out EXCEPT !["From<&Result>"] = Some(env_from_result(e_input))]
    /\ UNCHANGED e_input

\* Env::try_from(text)
ETryFrom ==
    /\ e_input.ok
    /\ e_out["TryFrom<String>"] = None
    /\ e_out' = [e_out EXCEPT !["TryFrom<String>"] = Some(env_try_from(e_input.val))]
    /\ UNCHANGED e_input

ENext ==
    /\ \/ EFromStr
       \/ EFrom
       \/ EFromResult
       \/ ETryFrom
    /\ UNCHANGED <<dvars, rvars, svars, qvars, gvars, tvars, cvars, mvars, lvars>>

\* one input is converted, by each conversion in any order
InitEnv == DIdle /\ RInit /\ SIdle /\ QIdle /\ GIdle /\ TIdle /\ CIdle /\ MIdle /\ LIdle /\ EInit

SpecEnv == InitEnv /\ [][ENext]_vars

\* the text is the word, compared letter by letter without regard to case
SameIgnoringCase(str, word) ==
    /\ Len(str) = Len(word)
    /\ \A i \in DOMAIN word : str[i] \in {word[i], UpperOf(word[i])}
NamesDev(str) == SameIgnoringCase(str, StrDev) \/ SameIgnoringCase(str, StrDevelopment)
NamesProd(str) == SameIgnoringCase(str, StrProd) \/ SameIgnoringCase(str, StrProduction)

(***************************************************************************)
(* C39.  The conversions of a string to Env agree on recognized input:     *)
(* compared without regard to case, `dev` and `development` give DEV and   *)
(* `prod` and `production` give PROD in each of them; on any other string  *)
(* FromStr returns DEV, TryFrom returns an error and the two From          *)
(* conversions panic; an absent variable gives DEV.                        *)
(***************************************************************************)
C39_ConversionsAgree ==
    \A c \in DOMAIN e_out : \A out \in e_out[c] :
        IF ~e_input.ok
        THEN out = Value("DEV")
        ELSE /\ NamesDev(e_input.val) => out = Value("DEV")
             /\ NamesProd(e_input.val) => out = Value("PROD")
             /\ (~NamesDev(e_input.val) /\ ~NamesProd(e_input.val)) =>
                    out = CASE c = "FromStr"         -> Value("DEV")
                            [] c = "TryFrom<String>" -> Error
                            [] OTHER                 -> Panic

\* `PrOdUcTiOn`, converted by all four
C39_Witness ==
    /\ e_input = Ok(<<"P", "r", "O", "d", "U", "c", "T", "i", "O", "n">>)
    /\ \A c \in Conversions : e_out[c] = Some(Value("PROD"))

\* `Devs`, converted by all four
C39_WitnessOther ==
    /\ e_input = Ok(<<"D", "e", "v", "s">>)
    /\ e_out["FromStr"] = Some(Value("DEV"))
    /\ e_out["From<&str>"] = Some(Panic)
    /\ e_out["From<&Result>"] = Some(Panic)
    /\ e_out["TryFrom<String>"] = Some(Error)

(***************************************************************************)
(* C40.  On a registry miss the dispatcher creates no execution scope,     *)
(* does not run the context-injection callback, does not snapshot the      *)
(* request (so its body is not drained) and invokes no handler; the 400    *)
(* response is made from the normalized name alone.                        *)
(***************************************************************************)
C40_MissTouchesNothing ==
    (dpc \notin {"start", "lookup"} /\ WithoutLeadingSlash(req_path) \notin Registered) =>
        /\ scope = "none"
        /\ ctx = EmptyContext
        /\ dsink = DefaultResponseParts
        /\ dwrites = 0
        /\ result = None
        /\ res = Some(not_found_response(WithoutLeadingSlash(req_path)))
        /\ \A r \in returned : r = not_found_response(WithoutLeadingSlash(req_path))

\* the unregistered name "g", asked for with an Accept and a Referer header
C40_Witness ==
    /\ Dispatched
    /\ req_path = <<"/", "g">>
    /\ AcceptIsExactly({"application/json"})
    /\ headers.referer = Some(Text("/foo"))
    /\ scope = "none"
    /\ Handed.status = StatusBadRequest

====
